---- MODULE Spec2Model ----
(***************************************************************************)
(* Feature pipeline and inference contract of the SarmayaGhar price        *)
(* estimation code: src/n/predict.py (PayloadValidator,                    *)
(* PropertyPricePredictor, main), src/server/ml/predict.py                 *)
(* (encode_features, main) and src/server/roi (ROIService and the two      *)
(* predictors).                                                            *)
(*                                                                         *)
(* One behaviour is one run of one entry point; the variable `program`     *)
(* says which one:                                                         *)
(*   "validate"  a call of PayloadValidator.validatePayload                *)
(*   "main"      a run of main() of src/n/predict.py                       *)
(*   "server"    a run of main() of src/server/ml/predict.py               *)
(*   "roi"       the ROI service: start-up, then requests                  *)
(*   "load"      load_model calls on one predictor of the ROI service      *)
(*   "grade"     a call of ROICalculator.get_investment_grade              *)
(*   "calc"      a call of ROICalculator.calculate_comprehensive_roi       *)
(*   "irr"       a call of ROICalculator.calculate_irr                     *)
(*   "prep"      a run of DataPreprocessor.preprocess                      *)
(*   "kaggle"    a run of main() of src/scripts/kaggle_train.py            *)
(*   "features"  the feature engineering of a training pipeline            *)
(*                                                                         *)
(* Python values are records [t, s, n, d]: t is the type tag, s the text   *)
(* of a str as a sequence of tokens (a piece of text without white space   *)
(* at its ends, or " " for leading or trailing white space), and n/d the   *)
(* value of an int (d = 1) or of a finite float (a fraction in lowest      *)
(* terms).  NaN and +inf are floats with their own tags.                   *)
(***************************************************************************)
EXTENDS Integers, Sequences, FiniteSets, Bags, TLC

VARIABLES
    program,      \* which entry point this run is
    pc,           \* the position of the run in its entry point
    payload,      \* the payload of the request
    validation,   \* what validatePayload returned for it
    files,        \* the artifact files on disk, path -> content or Missing
    predictor,    \* what the run has loaded: the PropertyPricePredictor of
                  \* main, the model and encoders of the server script, the
                  \* ROIService of the ROI service
    featureDf,    \* the last feature vector composed (main, server)
    prediction,   \* the last prediction or analysis produced
    nCompose,     \* number of feature vectors composed (main, server)
    nInfer,       \* number of model inferences (main, server), number of
                  \* requests analysed (roi)
    outcome       \* what the run reported last

(***************************************************************************)
(* Python values                                                           *)
(***************************************************************************)
PyVal(t, s, n, d) == [t |-> t, s |-> s, n |-> n, d |-> d]
Absent   == PyVal("absent", <<>>, 0, 1)      \* the key is not in the dict
PyNone   == PyVal("none", <<>>, 0, 1)
PyList   == PyVal("list", <<>>, 0, 1)        \* a non-empty list, e.g. [1]
PyNaN    == PyVal("nan", <<>>, 0, 1)         \* float('nan')
PyInf    == PyVal("inf", <<>>, 0, 1)         \* float('inf')
PyStr(toks)    == PyVal("str", toks, 0, 1)
PyInt(k)       == PyVal("int", <<>>, k, 1)
PyFloat(n, d)  == PyVal("float", <<>>, n, d)
Word(w)        == PyStr(<<w>>)

IsNumber(x) == x.t \in {"int", "float", "nan", "inf"}

\* bool(x): None, '', 0 and 0.0 are falsy
Truthy(x) ==
    CASE x.t = "none" -> FALSE
      [] x.t = "absent" -> FALSE
      [] x.t = "str" -> x.s # <<>>
      [] x.t \in {"int", "float"} -> x.n # 0
      [] OTHER -> TRUE

\* ordered comparisons of a number with an integer constant k; every
\* comparison with NaN is False
NumLT(x, k) == /\ x.t \in {"int", "float"}
               /\ x.n < k * x.d
NumLE(x, k) == /\ x.t \in {"int", "float"}
               /\ x.n <= k * x.d
NumGT(x, k) == \/ x.t = "inf"
               \/ /\ x.t \in {"int", "float"}
                  /\ x.n > k * x.d

\* str.strip(): drop leading and trailing white space
RECURSIVE StripLeft(_)
StripLeft(toks) ==
    IF toks # <<>> /\ Head(toks) = " " THEN StripLeft(Tail(toks)) ELSE toks
RECURSIVE StripRight(_)
StripRight(toks) ==
    IF toks # <<>> /\ toks[Len(toks)] = " "
    THEN StripRight(SubSeq(toks, 1, Len(toks) - 1))
    ELSE toks
Strip(toks) == StripRight(StripLeft(toks))

\* the numeric literals that occur in the inputs: token -> value;
\* any other token is not a number
FloatLiterals == [tok \in {"5", "3.5", "nan"} |->
                    CASE tok = "5" -> PyFloat(5, 1)
                      [] tok = "3.5" -> PyFloat(7, 2)
                      [] tok = "nan" -> PyNaN]
IntLiterals == [tok \in {"5"} |-> 5]

\* the outcome of a conversion: the value, or the exception it raises
Conv(exc, val) == [exc |-> exc, val |-> val]

\* float(x)
ToFloat(x) ==
    CASE x.t = "int" -> Conv("", PyFloat(x.n, 1))
      [] x.t \in {"float", "nan", "inf"} -> Conv("", x)
      [] x.t = "str" ->
            LET toks == Strip(x.s) IN
            IF Len(toks) = 1 /\ toks[1] \in DOMAIN FloatLiterals
            THEN Conv("", FloatLiterals[toks[1]])
            ELSE Conv("ValueError", PyNone)
      [] OTHER -> Conv("TypeError", PyNone)

\* truncation of n/d toward zero
Trunc(n, d) == IF n >= 0 THEN n \div d ELSE -((-n) \div d)

\* int(x): the value is an integer
ToInt(x) ==
    CASE x.t = "int" -> Conv("", x.n)
      [] x.t = "float" -> Conv("", Trunc(x.n, x.d))
      [] x.t = "nan" -> Conv("ValueError", 0)
      [] x.t = "inf" -> Conv("OverflowError", 0)
      [] x.t = "str" ->
            LET toks == Strip(x.s) IN
            IF Len(toks) = 1 /\ toks[1] \in DOMAIN IntLiterals
            THEN Conv("", IntLiterals[toks[1]])
            ELSE Conv("ValueError", 0)
      [] OTHER -> Conv("TypeError", 0)

(***************************************************************************)
(* PayloadValidator (src/n/predict.py)                                     *)
(***************************************************************************)
VALID_CITIES == << <<"Karachi">>, <<"Lahore">>, <<"Islamabad">> >>
VALID_PROPERTY_TYPES == << <<"House">>, <<"Flat">>, <<"Penthouse">> >>
VALID_PURPOSES == << <<"For Sale">>, <<"For Rent">> >>
requiredFields == <<"propertyType", "city", "areaMarla", "bedrooms", "bathrooms">>
PayloadFields == {"propertyType", "city", "areaMarla", "bedrooms", "bathrooms",
                  "location", "purpose"}

MaxAreaMarla == 100
MaxRooms == 10

Range(seq) == {seq[i] : i \in DOMAIN seq}

\* what a call returns: a tuple (isValid, errorMessage, cleanedPayload), or
\* the exception that left the function.  errorMessage is the sequence of
\* the texts that '; '.join puts into one string; cleaned is NoPayload for
\* Python's None.
NoPayload == [isNone |-> TRUE, propertyType |-> <<>>, city |-> <<>>,
              areaMarla |-> PyNone, bedrooms |-> 0, bathrooms |-> 0,
              location |-> PyNone, purpose |-> PyNone]
Returned(isValid, msg, cleaned) ==
    [raised |-> "", isValid |-> isValid, errorMessage |-> msg, cleanedPayload |-> cleaned]
Raised(exc) ==
    [raised |-> exc, isValid |-> FALSE, errorMessage |-> <<>>, cleanedPayload |-> NoPayload]

\* payload.get(key, default)
DictGet(dict, key, default) == IF dict[key] = Absent THEN default ELSE dict[key]

\* lines 51-60: the areaMarla block; returns the errors it adds and the value
AreaBlock(p) ==
    LET c == ToFloat(DictGet(p, "areaMarla", PyInt(0))) IN
    IF c.exc \in {"ValueError", "TypeError"}
    THEN [exc |-> "", errors |-> <<"areaMarla must be a valid number">>, val |-> PyInt(0)]
    ELSE IF c.exc # ""
    THEN [exc |-> c.exc, errors |-> <<>>, val |-> PyNone]
    ELSE [exc |-> "",
          errors |-> IF NumLE(c.val, 0) THEN <<"areaMarla must be greater than 0">>
                     ELSE IF NumGT(c.val, MaxAreaMarla)
                          THEN <<"areaMarla cannot exceed 100 Marla">>
                          ELSE <<>>,
          val |-> c.val]

\* lines 62-71 and 73-82: the bedrooms and the bathrooms block
RoomsBlock(p, field) ==
    LET c == ToInt(DictGet(p, field, PyInt(0))) IN
    IF c.exc \in {"ValueError", "TypeError"}
    THEN [exc |-> "", errors |-> <<field \o " must be a valid integer">>, val |-> 0]
    ELSE IF c.exc # ""
    THEN [exc |-> c.exc, errors |-> <<>>, val |-> 0]
    ELSE [exc |-> "",
          errors |-> IF c.val < 0 THEN <<field \o " cannot be negative">>
                     ELSE IF c.val > MaxRooms THEN <<field \o " cannot exceed 10">>
                          ELSE <<>>,
          val |-> c.val]

validatePayload(pl) ==
    IF ~pl.isDict
    THEN Returned(FALSE, <<"Payload must be a dictionary">>, NoPayload)
    ELSE
    LET p == pl.items
        missingFields == SelectSeq(requiredFields, LAMBDA f : p[f] = Absent)
    IN
    IF missingFields # <<>>
    THEN Returned(FALSE, <<"Missing required fields:">> \o missingFields, NoPayload)
    ELSE
    LET rawType == DictGet(p, "propertyType", PyStr(<<>>))
        rawCity == DictGet(p, "city", PyStr(<<>>))
    IN
    IF rawType.t # "str" THEN Raised("AttributeError")
    ELSE IF rawCity.t # "str" THEN Raised("AttributeError")
    ELSE
    LET propertyType == Strip(rawType.s)
        errType == IF propertyType \notin Range(VALID_PROPERTY_TYPES)
                   THEN <<"Invalid propertyType">> ELSE <<>>
        city == Strip(rawCity.s)
        errCity == IF city \notin Range(VALID_CITIES)
                   THEN <<"Invalid city">> ELSE <<>>
        area == AreaBlock(p)
        beds == RoomsBlock(p, "bedrooms")
        baths == RoomsBlock(p, "bathrooms")
        location == DictGet(p, "location", Word("Other_Location"))
        purpose == DictGet(p, "purpose", Word("For Sale"))
        errors == errType \o errCity \o area.errors \o beds.errors \o baths.errors
        cleanedPayload ==
            [isNone |-> FALSE,
             propertyType |-> propertyType,
             city |-> city,
             areaMarla |-> area.val,
             bedrooms |-> beds.val,
             bathrooms |-> baths.val,
             location |-> IF Truthy(location) THEN location ELSE Word("Other_Location"),
             purpose |-> IF purpose.t = "str" /\ purpose.s \in Range(VALID_PURPOSES)
                         THEN purpose ELSE Word("For Sale")]
    IN
    IF area.exc # "" THEN Raised(area.exc)
    ELSE IF beds.exc # "" THEN Raised(beds.exc)
    ELSE IF baths.exc # "" THEN Raised(baths.exc)
    ELSE IF errors # <<>> THEN Returned(FALSE, errors, NoPayload)
    ELSE Returned(TRUE, <<"Valid">>, cleanedPayload)

(***************************************************************************)
(* Inputs of a validatePayload call                                        *)
(***************************************************************************)
\* a payload differs from the well-formed base payload in at most
\* MaxDeviations fields
MaxDeviations == 2

BasePayload ==
    [propertyType |-> Word("House"), city |-> Word("Lahore"),
     areaMarla |-> PyInt(10), bedrooms |-> PyInt(4), bathrooms |-> PyInt(3),
     location |-> Absent, purpose |-> Absent]

FieldValues ==
    [propertyType |-> {Absent, Word("House"), PyStr(<<" ", "Flat", " ">>),
                       Word("Villa"), PyNone, PyInt(5)},
     city |-> {Absent, Word("Lahore"), Word("Quetta"), PyList, PyStr(<<>>)},
     areaMarla |-> {Absent, PyInt(10), PyInt(0), PyInt(100), PyInt(101),
                    PyFloat(1, 2), Word("5"), Word("abc"), Word("nan"),
                    PyNaN, PyInf, PyNone},
     bedrooms |-> {Absent, PyInt(4), PyInt(0), PyInt(-1), PyInt(10), PyInt(11),
                   PyFloat(37, 10), PyFloat(-1, 2), Word("5"), Word("3.5"),
                   PyInf, PyNaN, PyNone},
     bathrooms |-> {Absent, PyInt(3), PyInt(-1), PyInt(11), PyInf, PyList},
     location |-> {Absent, PyStr(<<>>), Word("DHA Defence"), PyNone,
                   PyInt(7)},
     purpose |-> {Absent, Word("For Sale"), Word("For Rent"), Word("Lease"),
                  PyNone}]

PayloadFieldSeq == <<"propertyType", "city", "areaMarla", "bedrooms", "bathrooms",
                     "location", "purpose">>

\* the dicts that differ from base in at most k of the fields of fieldSeq,
\* a field that differs taking a value of values[field]
RECURSIVE Variants(_, _, _, _)
Variants(base, values, fieldSeq, k) ==
    IF fieldSeq = <<>> THEN {base}
    ELSE LET f == Head(fieldSeq) IN
         Variants(base, values, Tail(fieldSeq), k)
         \cup (IF k = 0 THEN {}
               ELSE { [r EXCEPT ![f] = v] :
                        r \in Variants(base, values, Tail(fieldSeq), k - 1),
                        v \in values[f] \ {base[f]} })

Payloads ==
    { [isDict |-> TRUE, items |-> it] :
        it \in Variants(BasePayload, FieldValues, PayloadFieldSeq, MaxDeviations) }
    \cup { [isDict |-> FALSE, items |-> [f \in PayloadFields |-> Absent]] }

NoValidation == Raised("not called")

(***************************************************************************)
(* Arithmetic on Python numbers                                            *)
(***************************************************************************)
RECURSIVE Gcd(_, _)
Gcd(a, b) == IF b = 0 THEN a ELSE Gcd(b, a % b)
Abs(k) == IF k < 0 THEN -k ELSE k

\* the float n/d (d # 0) in lowest terms with a positive denominator
Fraction(n, d) ==
    LET g == Gcd(Abs(n), Abs(d))
        sgn == IF d < 0 THEN -1 ELSE 1
    IN PyFloat(sgn * (n \div g), sgn * (d \div g))

Finite(x) == x.t \in {"int", "float"}

\* x < y and x > y in IEEE arithmetic: False when either side is NaN
LessThan(x, y) ==
    \/ Finite(x) /\ Finite(y) /\ x.n * y.d < y.n * x.d
    \/ Finite(x) /\ y.t = "inf"
GreaterThan(x, y) == LessThan(y, x)

\* k / x for an int k and a float x
DivIntBy(k, x) ==
    CASE x.t = "nan" -> Conv("", PyNaN)
      [] x.t = "inf" -> Conv("", PyFloat(0, 1))
      [] x.n = 0 -> Conv("ZeroDivisionError", PyNone)
      [] OTHER -> Conv("", Fraction(k * x.d, x.n))

(***************************************************************************)
(* Preprocessor artifacts (src/n/data_preprocessing.py)                    *)
(***************************************************************************)
\* sklearn's LabelEncoder: classes_ is the sorted sequence of the values
\* seen by fit; transform gives the index of a value in it and raises
\* ValueError for a value that is not in it
PropertyTypeOrder == << <<"Flat">>, <<"House">>, <<"Penthouse">> >>
CityOrder == << <<"Islamabad">>, <<"Karachi">>, <<"Lahore">> >>
PurposeOrder == << <<"For Rent">>, <<"For Sale">> >>

LabelEncoderFit(order, seen) == SelectSeq(order, LAMBDA c : c \in seen)

IndexOf(seq, x) == CHOOSE i \in DOMAIN seq : seq[i] = x

LabelEncoderTransform(classes, x) ==
    IF x \in Range(classes)
    THEN Conv("", PyInt(IndexOf(classes, x) - 1))
    ELSE Conv("ValueError", PyNone)

\* category_encoders' TargetEncoder fitted on 'location' (smoothing 1.0):
\* mapping holds the smoothed mean of logPrice of every location seen by
\* fit, prior the mean over the corpus; a location not seen gets the prior
TargetEncoderTransform(enc, location) ==
    IF location \in DOMAIN enc.mapping THEN enc.mapping[location] ELSE enc.prior

\* dict.get(key, default) on a dict keyed by numbers
NumDictGet(dict, key, default) == IF key \in DOMAIN dict THEN dict[key] ELSE default

DefaultMedianPrice == 10000000

\* the corpora the preprocessor may have been fitted on: filterCities and
\* filterPropertyTypes keep the three cities and the three types; which of
\* them, and which purposes, occur is up to the data
Corpora ==
    { [types |-> ts, cities |-> Range(CityOrder), purposes |-> ps] :
        ts \in { Range(PropertyTypeOrder), { <<"House">>, <<"Flat">> } },
        ps \in { Range(PurposeOrder), { <<"For Sale">> } } }

\* saveCleanedData: the content of preprocessor_artifacts.pkl for a corpus
\* (log prices in hundredths, prices in PKR)
PreprocessorArtifacts(corpus) ==
    [labelEncoders |->
        [property_type |-> LabelEncoderFit(PropertyTypeOrder, corpus.types),
         city |-> LabelEncoderFit(CityOrder, corpus.cities),
         purpose |-> LabelEncoderFit(PurposeOrder, corpus.purposes)],
     targetEncoder |->
        [mapping |-> (Word("DHA Defence") :> PyFloat(1720, 100)
                      @@ Word("Other_Location") :> PyFloat(1610, 100)),
         prior |-> PyFloat(1630, 100)],
     cityMedianPrices |-> (PyInt(0) :> 12000000 @@ PyInt(1) :> 9000000
                           @@ PyInt(2) :> 11000000),
     locationMedianPrices |-> (PyFloat(1720, 100) :> 30000000
                               @@ PyFloat(1610, 100) :> 9500000)]

(***************************************************************************)
(* PropertyPricePredictor (src/n/predict.py)                               *)
(***************************************************************************)
Missing == [exists |-> FALSE]
ModelPath == "model.pkl"
FeaturesPath == "features.pkl"
PreprocessorPath == "preprocessor_artifacts.pkl"
ArtifactPaths == {ModelPath, FeaturesPath, PreprocessorPath}

minRoomsPerMarla == PyFloat(3, 20)
maxRoomsPerMarla == PyFloat(9, 5)

NoPredictor == [constructed |-> FALSE]

\* __init__: loadModel, then loadPreprocessor; the exception that leaves it,
\* and the predictor when there is none
Construct(fs) ==
    IF ~fs[ModelPath].exists THEN [exc |-> "FileNotFoundError", obj |-> NoPredictor]
    ELSE IF ~fs[FeaturesPath].exists THEN [exc |-> "FileNotFoundError", obj |-> NoPredictor]
    ELSE IF ~fs[PreprocessorPath].exists THEN [exc |-> "FileNotFoundError", obj |-> NoPredictor]
    ELSE [exc |-> "",
          obj |-> [constructed |-> TRUE,
                   model |-> fs[ModelPath].content,
                   featureNames |-> fs[FeaturesPath].content,
                   labelEncoders |-> fs[PreprocessorPath].content.labelEncoders,
                   targetEncoder |-> fs[PreprocessorPath].content.targetEncoder,
                   cityMedianPrices |-> fs[PreprocessorPath].content.cityMedianPrices,
                   locationMedianPrices |->
                       fs[PreprocessorPath].content.locationMedianPrices]]

\* validateRoomAreaRatio: (isValid, msg), or the exception of the division
validateRoomAreaRatio(bedrooms, bathrooms, areaMarla) ==
    LET totalRooms == bedrooms + bathrooms
        q == DivIntBy(totalRooms, areaMarla)
    IN IF q.exc # "" THEN [exc |-> q.exc, isValid |-> FALSE, roomsPerMarla |-> PyNone]
       ELSE IF LessThan(q.val, minRoomsPerMarla)
            THEN [exc |-> "", isValid |-> FALSE, roomsPerMarla |-> q.val]
       ELSE IF GreaterThan(q.val, maxRoomsPerMarla)
            THEN [exc |-> "", isValid |-> FALSE, roomsPerMarla |-> q.val]
       ELSE [exc |-> "", isValid |-> TRUE, roomsPerMarla |-> q.val]

Column(name, value) == [name |-> name, value |-> value]
ColumnNames(df) == [i \in DOMAIN df |-> df[i].name]

\* lines 171-194: the features dict, in insertion order
FeaturesDict(self, pl, typeCode, cityCode, purposeCode) ==
    LET locCode == TargetEncoderTransform(self.targetEncoder, pl.location) IN
    << Column("baths", PyInt(pl.bathrooms)),
       Column("bedrooms", PyInt(pl.bedrooms)),
       Column("Area_in_Marla", pl.areaMarla),
       Column("totalRooms", PyInt(pl.bedrooms + pl.bathrooms)),
       Column("property_typeEncoded", typeCode),
       Column("cityEncoded", cityCode),
       Column("purposeEncoded", purposeCode),
       Column("cityMedianPrice",
              PyInt(NumDictGet(self.cityMedianPrices, cityCode, DefaultMedianPrice))),
       Column("locationTargetEncoded", locCode),
       Column("locationMedianPrice",
              PyInt(NumDictGet(self.locationMedianPrices, locCode, DefaultMedianPrice))) >>

\* the featureDf without the selection of line 202: the columns in the
\* order of the features dict, followed by the ones added as 0
KeepDictOrder(features, featureNames) ==
    features \o SelectSeq([i \in DOMAIN featureNames |-> Column(featureNames[i], PyInt(0))],
                          LAMBDA c : c.name \notin Range(ColumnNames(features)))

\* lines 196-202: featureDf[self.featureNames], a column the dict does not
\* have being added as 0
SelectColumns(features, featureNames) ==
    [i \in DOMAIN featureNames |->
        IF featureNames[i] \in Range(ColumnNames(features))
        THEN features[IndexOf(ColumnNames(features), featureNames[i])]
        ELSE Column(featureNames[i], PyInt(0))]

\* prepareFeatures: the exception it raises, or the featureDf (one row)
prepareFeatures(self, pl) ==
    LET ratio == validateRoomAreaRatio(pl.bedrooms, pl.bathrooms, pl.areaMarla) IN
    IF ratio.exc # "" THEN [exc |-> ratio.exc, df |-> <<>>]
    ELSE IF ~ratio.isValid THEN [exc |-> "ValueError", df |-> <<>>]
    ELSE
    LET t == LabelEncoderTransform(self.labelEncoders.property_type, pl.propertyType)
        c == LabelEncoderTransform(self.labelEncoders.city, pl.city)
        u == LabelEncoderTransform(self.labelEncoders.purpose, pl.purpose.s)
    IN
    IF t.exc # "" THEN [exc |-> t.exc, df |-> <<>>]
    ELSE IF c.exc # "" THEN [exc |-> c.exc, df |-> <<>>]
    ELSE IF u.exc # "" THEN [exc |-> u.exc, df |-> <<>>]
    ELSE [exc |-> "",
          df |-> SelectColumns(FeaturesDict(self, pl, t.val, c.val, u.val),
                               self.featureNames)]


(***************************************************************************)
(* predictPrice, predictFuturePrices, generateInsights, generateApiResponse *)
(***************************************************************************)
\* the trained regressor is opaque: within a run it is a function of the
\* featureDf, and the run presents it one featureDf, so its content is the
\* log price it returns; Expm1Table holds np.expm1 of the log prices used,
\* rounded to a short fraction
Expm1Table ==
    (PyFloat(16, 1) :> Fraction(17772219, 2)
     @@ PyFloat(29, 2) :> Fraction(37672407, 19)
     @@ PyFloat(2, 1) :> Fraction(639, 100)
     @@ PyFloat(0, 1) :> PyFloat(0, 1)
     @@ PyFloat(-1, 1) :> Fraction(-63, 100))
Models == DOMAIN Expm1Table
expm1(x) == Expm1Table[x]

\* x * (n/d) for finite x
Times(x, n, d) == LET f == Fraction(n, d) IN Fraction(x.n * f.n, x.d * f.d)
\* int(x) for finite x
IntOf(x) == Trunc(x.n, x.d)
\* 85 - abs(x - 16) * 5, clamped to [70, 95] and truncated
Confidence(logPricePred) ==
    LET dist == Fraction(Abs(logPricePred.n - 16 * logPricePred.d), logPricePred.d)
        raw == Fraction(85 * dist.d - 5 * dist.n, dist.d)
        low == IF LessThan(PyInt(95), raw) THEN PyInt(95) ELSE raw
        clamped == IF LessThan(low, PyInt(70)) THEN PyInt(70) ELSE low
    IN IntOf(clamped)

NoPrediction == [predictedPrice |-> 0, priceRange |-> [min |-> 0, max |-> 0],
                 confidence |-> 0]

\* lines 226-243: predictPrice after prepareFeatures
predictPrice(self) ==
    LET logPricePred == self.model
        predictedPrice == expm1(logPricePred)
        priceMin == Times(predictedPrice, 85, 100)
        priceMax == Times(predictedPrice, 115, 100)
    IN [predictedPrice |-> IntOf(predictedPrice),
        priceRange |-> [min |-> IntOf(priceMin), max |-> IntOf(priceMax)],
        confidence |-> Confidence(logPricePred)]

(***************************************************************************)
(* Inputs of main(): what getManualInput can return                        *)
(***************************************************************************)
BaseManual ==
    [propertyType |-> Word("House"), city |-> Word("Lahore"),
     areaMarla |-> PyFloat(10, 1), bedrooms |-> PyInt(4), bathrooms |-> PyInt(3),
     location |-> Word("Other_Location"), purpose |-> Word("For Sale")]

ManualValues ==
    [propertyType |-> {Word("House"), Word("Flat"), Word("Penthouse")},
     city |-> {Word("Karachi"), Word("Lahore"), Word("Islamabad")},
     areaMarla |-> {PyFloat(10, 1), PyFloat(5, 1), PyFloat(20, 1), PyFloat(100, 1),
                    PyFloat(0, 1), PyFloat(101, 1), PyNaN},
     bedrooms |-> {PyInt(4), PyInt(0), PyInt(6), PyInt(7), PyInt(-1), PyInt(11)},
     bathrooms |-> {PyInt(3), PyInt(0), PyInt(10), PyInt(11)},
     location |-> {Word("Other_Location"), Word("DHA Defence"), Word("Gulberg")},
     purpose |-> {Word("For Sale"), Word("For Rent")}]

ManualPayloads ==
    { [isDict |-> TRUE, items |-> it] :
        it \in Variants(BaseManual, ManualValues, PayloadFieldSeq, MaxDeviations) }

\* the feature lists a training run may have saved: the columns of the
\* cleaned data set without price and logPrice
FeatureNameLists ==
    { <<"baths", "bedrooms", "Area_in_Marla", "totalRooms", "cityMedianPrice",
        "locationMedianPrice", "property_typeEncoded", "cityEncoded", "purposeEncoded",
        "locationTargetEncoded">>,
      <<"latitude", "bedrooms", "baths", "Area_in_Marla", "totalRooms",
        "locationTargetEncoded", "cityEncoded">> }

\* at most MaxMissing artifact files are missing
MaxMissing == 1

FileOf(contents) == {Missing} \cup { [exists |-> TRUE, content |-> c] : c \in contents }

Disks ==
    { d \in { (ModelPath :> m @@ FeaturesPath :> f @@ PreprocessorPath :> a) :
                m \in FileOf(Models), f \in FileOf(FeatureNameLists),
                a \in FileOf({PreprocessorArtifacts(c) : c \in Corpora}) } :
        Cardinality({x \in ArtifactPaths : ~d[x].exists}) <= MaxMissing }

NoFeatureDf == <<>>

(***************************************************************************)
(* program "main": main() of src/n/predict.py                              *)
(***************************************************************************)
NoPayloadYet == [isDict |-> FALSE, items |-> [f \in PayloadFields |-> Absent]]

InitMain ==
    /\ program = "main"
    /\ pc = "start"
    /\ files \in Disks
    /\ payload = NoPayloadYet
    /\ validation = NoValidation
    /\ predictor = NoPredictor
    /\ featureDf = NoFeatureDf
    /\ prediction = NoPrediction
    /\ nCompose = 0
    /\ nInfer = 0
    /\ outcome = ""

\* line 398: PropertyPricePredictor(modelType); a FileNotFoundError ends the
\* run in the handler of lines 439-444
MainConstruct ==
    /\ program = "main"
    /\ pc = "start"
    /\ LET c == Construct(files) IN
       IF c.exc # ""
       THEN /\ pc' = "done"
            /\ outcome' = c.exc
            /\ UNCHANGED predictor
       ELSE /\ pc' = "constructed"
            /\ predictor' = c.obj
            /\ UNCHANGED outcome
    /\ UNCHANGED <<program, payload, validation, files, featureDf, prediction,
                   nCompose, nInfer>>

\* line 404: getManualInput()
MainGetManualInput ==
    /\ program = "main"
    /\ pc = "constructed"
    /\ \E pl \in ManualPayloads : payload' = pl
    /\ pc' = "received"
    /\ UNCHANGED <<program, validation, files, predictor, featureDf, prediction,
                   nCompose, nInfer, outcome>>

\* lines 375-377: the text typed for a number is not a number; float() or
\* int() raises ValueError, which the handler of lines 446-449 reports
MainBadManualInput ==
    /\ program = "main"
    /\ pc = "constructed"
    /\ pc' = "done"
    /\ outcome' = "ValueError"
    /\ UNCHANGED <<program, payload, validation, files, predictor, featureDf,
                   prediction, nCompose, nInfer>>

\* lines 410-416
MainValidate ==
    /\ program = "main"
    /\ pc = "received"
    /\ LET v == validatePayload(payload) IN
       /\ validation' = v
       /\ IF v.raised # "" THEN pc' = "done" /\ outcome' = v.raised
          ELSE IF ~v.isValid THEN pc' = "done" /\ outcome' = "Validation Error"
          ELSE pc' = "validated" /\ UNCHANGED outcome
    /\ UNCHANGED <<program, payload, files, predictor, featureDf, prediction,
                   nCompose, nInfer>>

\* prepareFeatures, called by predictPrice (line 224): the first time from
\* generateApiResponse (line 296), the second time from predictFuturePrices
\* (line 247)
MainPrepareFeatures ==
    /\ program = "main"
    /\ \/ pc = "validated"
       \/ pc = "predicted" /\ nInfer = 1
    /\ LET r == prepareFeatures(predictor, validation.cleanedPayload) IN
       IF r.exc # ""
       THEN /\ pc' = "done"
            /\ outcome' = r.exc
            /\ UNCHANGED <<featureDf, nCompose>>
       ELSE /\ pc' = "composed"
            /\ featureDf' = r.df
            /\ nCompose' = nCompose + 1
            /\ UNCHANGED outcome
    /\ UNCHANGED <<program, payload, validation, files, predictor, prediction, nInfer>>

\* predictLogPrice and the rest of predictPrice (lines 226-243)
MainPredictLogPrice ==
    /\ program = "main"
    /\ pc = "composed"
    /\ prediction' = predictPrice(predictor)
    /\ nInfer' = nInfer + 1
    /\ pc' = "predicted"
    /\ UNCHANGED <<program, payload, validation, files, predictor, featureDf,
                   nCompose, outcome>>

\* the rest of predictFuturePrices and of generateApiResponse: line 254
\* divides by currentPrice, and generateInsights (line 285) takes int() of
\* predictedPrice / areaMarla
MainRespond ==
    /\ program = "main"
    /\ pc = "predicted"
    /\ nInfer = 2
    /\ pc' = "done"
    /\ outcome' = IF prediction.predictedPrice = 0 THEN "ZeroDivisionError"
                  ELSE IF validation.cleanedPayload.areaMarla.t = "nan" THEN "ValueError"
                  ELSE "response"
    /\ UNCHANGED <<program, payload, validation, files, predictor, featureDf,
                   prediction, nCompose, nInfer>>

(***************************************************************************)
(* program "validate"                                                      *)
(***************************************************************************)
InitValidate ==
    /\ program = "validate"
    /\ pc = "received"
    /\ payload \in Payloads
    /\ validation = NoValidation
    /\ files = [f \in ArtifactPaths |-> Missing]
    /\ predictor = NoPredictor
    /\ featureDf = NoFeatureDf
    /\ prediction = NoPrediction
    /\ nCompose = 0
    /\ nInfer = 0
    /\ outcome = ""

ValidateCall ==
    /\ program = "validate"
    /\ pc = "received"
    /\ validation' = validatePayload(payload)
    /\ pc' = "returned"
    /\ UNCHANGED <<program, payload, files, predictor, featureDf, prediction,
                   nCompose, nInfer, outcome>>

(***************************************************************************)
(* src/server/ml/predict.py: encode_features                               *)
(***************************************************************************)
RequestFields == {"propertyType", "location", "neighbourhood", "city", "province",
                  "areaMarla", "bedrooms", "bathrooms", "yearBuilt", "purpose"}

\* a dict of the encoders file as the sequence of its keys, in the order
\* create_map numbered them: the code of a key is its position less one
MapGet(map, key, default) ==
    IF key.t = "str" /\ key.s \in Range(map) THEN PyInt(IndexOf(map, key.s) - 1)
    ELSE default

\* encoders.get(name, {}); the dict of the encoders file is the set of its
\* keys and the map under each of them
EncoderGet(encoders, name) ==
    IF name \in encoders.keys THEN encoders.maps[name] ELSE <<>>

Hashable(x) == x.t # "list"

\* x / y, x - y and the comparisons for finite Python numbers
Quot(x, y) == Fraction(x.n * y.d, x.d * y.n)
AtLeast(x, k) == x.n >= k * x.d
Above(x, k) == x.n > k * x.d

\* lines 142-151
AreaCategory(area_marla) ==
    IF Above(area_marla, 20) THEN <<"20+ Marla">>
    ELSE IF AtLeast(area_marla, 15) THEN <<"15-20 Marla">>
    ELSE IF AtLeast(area_marla, 10) THEN <<"10-15 Marla">>
    ELSE IF AtLeast(area_marla, 5) THEN <<"5-10 Marla">>
    ELSE <<"0-5 Marla">>

\* str.lower() on the texts of the model
Lower(text) ==
    CASE text = "DHA" -> "dha"
      [] text = "DHA Phase 5" -> "dha phase 5"
      [] text = "Gulberg" -> "gulberg"
      [] text = "Nowhere" -> "nowhere"
      [] OTHER -> text

\* `area in text` for the texts of the model
Occurs(area, text) ==
    <<area, text>> \in {<<"DHA", "DHA">>, <<"DHA", "DHA Phase 5">>,
                        <<"Gulberg", "Gulberg">>}

premium_areas == {"DHA", "Bahria", "Gulberg", "Clifton", "Defence", "Cantonment"}

\* lines 157-161: the request's texts are lowered, the names of
\* premium_areas are not
LocationPremium(neighbourhood, location) ==
    IF \E area \in premium_areas :
          \/ \E i \in 1..Len(neighbourhood.s) : Occurs(area, Lower(neighbourhood.s[i]))
          \/ \E i \in 1..Len(location.s) : Occurs(area, Lower(location.s[i]))
    THEN PyInt(1) ELSE PyInt(0)

\* lines 164-173
city_coords ==
    [Karachi    |-> <<Fraction(248607, 10000), Fraction(670011, 10000)>>,
     Lahore     |-> <<Fraction(315204, 10000), Fraction(743587, 10000)>>,
     Islamabad  |-> <<Fraction(336844, 10000), Fraction(730479, 10000)>>,
     Faisalabad |-> <<Fraction(314504, 10000), Fraction(731350, 10000)>>,
     Rawalpindi |-> <<Fraction(335651, 10000), Fraction(730169, 10000)>>]

Coords(city) ==
    IF city.t = "str" /\ Len(city.s) = 1 /\ city.s[1] \in DOMAIN city_coords
    THEN city_coords[city.s[1]] ELSE city_coords["Karachi"]

current_year == 2024

\* what makes the body of encode_features raise (KeyError, TypeError or
\* AttributeError) for a request whose numbers are finite; the handler of
\* lines 207-209 turns every exception into the result None
EncodeRaises(request) ==
    \/ \E f \in {"propertyType", "neighbourhood", "location", "city", "province"} :
          request[f].t = "absent" \/ ~Hashable(request[f])
    \/ ~Finite(request.areaMarla)
    \/ request.neighbourhood.t # "str"
    \/ request.location.t # "str"
    \/ ~Finite(request.yearBuilt)
    \/ ~Finite(request.bedrooms)
    \/ request.bedrooms.n > 0 /\ ~Finite(request.bathrooms)
    \/ request.bathrooms.t = "absent"

NoFeatures == [none |-> TRUE, features |-> <<>>]

\* lines 102-209
encode_features(request, encoders) ==
    IF EncodeRaises(request) THEN NoFeatures
    ELSE
    LET property_type_encoded ==
            MapGet(EncoderGet(encoders, "property_type_encoder"),
                   request.propertyType, PyInt(0))
        location_map == EncoderGet(encoders, "location_encoder")
        location_encoded ==
            MapGet(location_map, request.neighbourhood,
                   MapGet(location_map, request.location, PyInt(0)))
        city_encoded ==
            MapGet(EncoderGet(encoders, "city_encoder"), request.city, PyInt(0))
        province_encoded ==
            MapGet(EncoderGet(encoders, "province_encoder"), request.province, PyInt(0))
        purpose_encoded == PyInt(0)
        area_category_encoded ==
            MapGet(EncoderGet(encoders, "area_category_encoder"),
                   PyStr(AreaCategory(request.areaMarla)), PyInt(0))
        location_premium == LocationPremium(request.neighbourhood, request.location)
        coords == Coords(request.city)
        age == current_year - request.yearBuilt.n
        property_age ==
            IF request.yearBuilt.t = "int"
            THEN PyInt(IF age > 0 THEN age ELSE 0)
            ELSE IF current_year * request.yearBuilt.d > request.yearBuilt.n
                 THEN Fraction(current_year * request.yearBuilt.d - request.yearBuilt.n,
                               request.yearBuilt.d)
                 ELSE PyInt(0)
        bath_bedroom_ratio ==
            IF request.bedrooms.n > 0 THEN Quot(request.bathrooms, request.bedrooms)
            ELSE PyInt(0)
        area_size_normalized ==
            IF Above(request.areaMarla, 50) THEN PyInt(1)
            ELSE Quot(request.areaMarla, PyInt(50))
    IN [none |-> FALSE,
        features |->
          << property_type_encoded,
             location_encoded,
             city_encoded,
             province_encoded,
             purpose_encoded,
             area_category_encoded,
             coords[1],
             coords[2],
             request.bathrooms,
             request.bedrooms,
             request.areaMarla,
             PyInt(0),
             location_premium,
             property_age,
             bath_bedroom_ratio,
             area_size_normalized >>]

\* the expressions of lines 186-203, position by position
EncodedFeatureNames ==
    <<"property_type_encoded", "location_encoded", "city_encoded", "province_encoded",
      "purpose_encoded", "area_category_encoded", "latitude", "longitude",
      "bathrooms", "bedrooms", "areaMarla", "price_per_unit", "location_premium",
      "property_age", "bath_bedroom_ratio", "area_size_normalized">>

\* src/scripts/kaggle_train_backup.py, lines 109-127
feature_cols ==
    <<"property_type_encoded", "location_encoded", "city_encoded", "province_encoded",
      "purpose_encoded", "area_category_encoded", "latitude", "longitude",
      "baths", "bedrooms", "area_size", "price_per_unit", "location_premium",
      "property_age_years", "bath_bedroom_ratio", "area_size_normalized">>

\* the column of the training corpus that a field of the request stands for
TrainingColumn(name) ==
    CASE name = "bathrooms" -> "baths"
      [] name = "areaMarla" -> "area_size"
      [] name = "property_age" -> "property_age_years"
      [] OTHER -> name

(***************************************************************************)
(* Inputs of the server script                                             *)
(***************************************************************************)
BaseRequest ==
    [propertyType |-> Word("House"), location |-> Word("DHA Phase 5"),
     neighbourhood |-> Word("DHA"), city |-> Word("Lahore"),
     province |-> Word("Punjab"), areaMarla |-> PyInt(10), bedrooms |-> PyInt(4),
     bathrooms |-> PyInt(3), yearBuilt |-> PyInt(2015), purpose |-> Absent]

RequestValues ==
    [propertyType |-> {Word("House"), Word("Flat"), Word("Villa"), Absent, PyList},
     location |-> {Word("DHA Phase 5"), Word("Gulberg"), Word("Nowhere"), PyStr(<<>>),
                   Absent, PyNone},
     neighbourhood |-> {Word("DHA"), Word("Nowhere"), Absent},
     city |-> {Word("Lahore"), Word("Karachi"), Word("Quetta"), Absent},
     province |-> {Word("Punjab"), Word("Balochistan"), Absent},
     areaMarla |-> {PyInt(10), PyInt(3), PyFloat(35, 2), PyInt(60), Word("5"), PyNone},
     bedrooms |-> {PyInt(4), PyInt(0), Absent},
     bathrooms |-> {PyInt(3), PyNone, Absent},
     yearBuilt |-> {PyInt(2015), PyInt(2030), PyNone, Absent},
     purpose |-> {Absent, Word("For Sale"), Word("For Rent"), Word("Lease")}]

RequestFieldSeq == <<"propertyType", "location", "neighbourhood", "city", "province",
                     "areaMarla", "bedrooms", "bathrooms", "yearBuilt", "purpose">>

Requests ==
    { [isDict |-> TRUE, items |-> it] :
        it \in Variants(BaseRequest, RequestValues, RequestFieldSeq, MaxDeviations) }

\* the encoders a run of kaggle_train_backup saves (create_map, lines 69-78)
TrainedMaps ==
    [property_type_encoder |-> << <<"House">>, <<"Flat">> >>,
     location_encoder |-> << <<"Gulberg">>, <<"DHA Phase 5">>, <<"DHA">> >>,
     city_encoder |-> << <<"Karachi">>, <<"Lahore">> >>,
     province_encoder |-> << <<"Sindh">>, <<"Punjab">> >>,
     purpose_encoder |-> << <<"For Sale">> >>,
     area_category_encoder |-> << <<"5-10 Marla">>, <<"0-5 Marla">>, <<"10-15 Marla">>,
                                  <<"20+ Marla">>, <<"15-20 Marla">> >>]

ServerEncoders ==
    { [keys |-> k, maps |-> TrainedMaps] :
        k \in { DOMAIN TrainedMaps,
                {"property_type_encoder", "location_encoder", "city_encoder"},
                {} } }

\* a model file holds a fitted regressor; the model keeps of it the price it
\* predicts
ServerModels == {PyFloat(8500000, 1), PyFloat(250000, 1)}

ServerDisks ==
    { d \in { [modelPath |-> m, encoderPath |-> e] :
                m \in FileOf(ServerModels), e \in FileOf(ServerEncoders) } :
        Cardinality({x \in {"modelPath", "encoderPath"} : ~d[x].exists}) <= MaxMissing }

(***************************************************************************)
(* program "server": main() of src/server/ml/predict.py                    *)
(***************************************************************************)
InitServer ==
    /\ program = "server"
    /\ pc = "start"
    /\ files \in ServerDisks
    /\ payload \in Requests
    /\ validation = NoValidation
    /\ predictor = NoPredictor
    /\ featureDf = NoFeatureDf
    /\ prediction = NoPrediction
    /\ nCompose = 0
    /\ nInfer = 0
    /\ outcome = ""

\* lines 222-225: load_model returns None when the file cannot be read
ServerLoadModel ==
    /\ program = "server"
    /\ pc = "start"
    /\ IF files.modelPath.exists
       THEN /\ predictor' = [constructed |-> TRUE, model |-> files.modelPath.content]
            /\ pc' = "modelLoaded"
            /\ UNCHANGED outcome
       ELSE /\ pc' = "done"
            /\ outcome' = "Failed to load model"
            /\ UNCHANGED predictor
    /\ UNCHANGED <<program, payload, validation, files, featureDf, prediction,
                   nCompose, nInfer>>

\* lines 231-234: load_encoders returns {} when the file cannot be read, and
\* an empty dict is refused like a missing one
ServerLoadEncoders ==
    /\ program = "server"
    /\ pc = "modelLoaded"
    /\ LET encoders == IF files.encoderPath.exists THEN files.encoderPath.content
                       ELSE [keys |-> {}, maps |-> TrainedMaps] IN
       IF encoders.keys = {}
       THEN /\ pc' = "done"
            /\ outcome' = "Failed to load encoders"
            /\ UNCHANGED predictor
       ELSE /\ predictor' = [constructed |-> TRUE, model |-> predictor.model,
                             encoders |-> encoders]
            /\ pc' = "encodersLoaded"
            /\ UNCHANGED outcome
    /\ UNCHANGED <<program, payload, validation, files, featureDf, prediction,
                   nCompose, nInfer>>

\* lines 243-246
ServerEncode ==
    /\ program = "server"
    /\ pc = "encodersLoaded"
    /\ LET r == encode_features(payload.items, predictor.encoders) IN
       IF r.none
       THEN /\ pc' = "done"
            /\ outcome' = "Failed to encode features"
            /\ UNCHANGED <<featureDf, nCompose>>
       ELSE /\ pc' = "composed"
            /\ featureDf' = r.features
            /\ nCompose' = nCompose + 1
            /\ UNCHANGED outcome
    /\ UNCHANGED <<program, payload, validation, files, predictor, prediction, nInfer>>

\* line 262: max(1000000, prediction)
PriceFloor == 1000000
FloorPrice(p) == IF Above(p, PriceFloor) THEN p ELSE PyInt(PriceFloor)

\* lines 249-270.  A vector that holds None (bathrooms, which line 181
\* does not divide when bedrooms is 0) is an array of objects; what
\* model.predict does with it is up to the regressor of the model file: one
\* that takes a missing value (as xgboost does) predicts, one that refuses
\* it raises and the handler of lines 272-274 reports the error
ServerPredict ==
    /\ program = "server"
    /\ pc = "composed"
    /\ nInfer' = nInfer + 1
    /\ pc' = "done"
    /\ \E takesMissing \in BOOLEAN :
          IF (\E i \in 1..Len(featureDf) : ~IsNumber(featureDf[i])) /\ ~takesMissing
          THEN /\ outcome' = "error"
               /\ UNCHANGED prediction
          ELSE /\ outcome' = "prediction"
               /\ prediction' = [predictedPrice |-> FloorPrice(predictor.model)]
    /\ UNCHANGED <<program, payload, validation, files, predictor, featureDf, nCompose>>

(***************************************************************************)
(* src/server/roi/models: RentalIncomePredictor and PropertyValuePredictor *)
(***************************************************************************)
\* an attribute that still has the value __init__ gave it
Fresh == [fitted |-> FALSE]

\* __init__ of either predictor
NewPredictor ==
    [models |-> Fresh, encoders |-> Fresh, scaler |-> Fresh,
     feature_columns |-> <<>>, is_trained |-> FALSE]

\* load_model of either predictor: the four files are read one after the
\* other, each into its attribute, and joblib.load raises FileNotFoundError
\* for a missing one; is_trained is set after the last
load_model(self, dir) ==
    IF ~dir.exists THEN [exc |-> "FileNotFoundError", self |-> self]
    ELSE IF ~dir.model.exists THEN [exc |-> "FileNotFoundError", self |-> self]
    ELSE LET s1 == [self EXCEPT !.models = dir.model.content] IN
    IF ~dir.encoders.exists THEN [exc |-> "FileNotFoundError", self |-> s1]
    ELSE LET s2 == [s1 EXCEPT !.encoders = dir.encoders.content] IN
    IF ~dir.scaler.exists THEN [exc |-> "FileNotFoundError", self |-> s2]
    ELSE LET s3 == [s2 EXCEPT !.scaler = dir.scaler.content] IN
    IF ~dir.features.exists THEN [exc |-> "FileNotFoundError", self |-> s3]
    ELSE [exc |-> "",
          self |-> [s3 EXCEPT !.feature_columns = dir.features.content,
                              !.is_trained = TRUE]]

\* datetime.now().year
NowYear == 2026

\* a label-encoded column: 0 when the key is not in property_data and when
\* transform raises ValueError
EncodedOrZero(classes, value) ==
    IF value.t = "absent" THEN Conv("", PyInt(0))
    ELSE LET r == LabelEncoderTransform(classes, value.s) IN
         IF r.exc = "ValueError" THEN Conv("", PyInt(0)) ELSE r

\* `num / den if den > 0 else 0`
RatioIfPositive(num, den) ==
    IF ~IsNumber(den) THEN Conv("TypeError", PyNone)
    ELSE IF Finite(den) /\ den.n > 0
         THEN IF ~IsNumber(num) THEN Conv("TypeError", PyNone)
              ELSE Conv("", Quot(num, den))
    ELSE Conv("", PyInt(0))

\* one pass of the loop of predict_property_value (lines 300-363): the
\* value appended for a column; predict_rental_income (lines 284-328) has
\* the same branches for the columns of its model
FeatureOf(self, col, property_data) ==
    CASE col = "property_type_encoded" ->
            EncodedOrZero(self.encoders.property_type, property_data.property_type)
      [] col = "location_encoded" ->
            EncodedOrZero(self.encoders.location, property_data.location)
      [] col = "city_encoded" ->
            EncodedOrZero(self.encoders.city, property_data.city)
      [] col = "province_encoded" ->
            EncodedOrZero(self.encoders.province, property_data.province)
      [] col = "bedrooms" -> Conv("", DictGet(property_data, "bedrooms", PyInt(0)))
      [] col = "bathrooms" -> Conv("", DictGet(property_data, "bathrooms", PyInt(0)))
      [] col = "area_marla" -> Conv("", DictGet(property_data, "area_marla", PyInt(0)))
      [] col = "year" -> Conv("", DictGet(property_data, "year_built", PyInt(NowYear)))
      [] col = "latitude" -> Conv("", DictGet(property_data, "latitude", PyInt(0)))
      [] col = "longitude" -> Conv("", DictGet(property_data, "longitude", PyInt(0)))
      [] col = "price_per_marla" ->
            RatioIfPositive(DictGet(property_data, "purchase_price", PyInt(0)),
                            DictGet(property_data, "area_marla", PyInt(1)))
      [] col = "bedroom_density" ->
            RatioIfPositive(DictGet(property_data, "area_marla", PyInt(0)),
                            DictGet(property_data, "bedrooms", PyInt(1)))
      [] col = "bathroom_ratio" ->
            RatioIfPositive(DictGet(property_data, "bathrooms", PyInt(0)),
                            DictGet(property_data, "bedrooms", PyInt(1)))
      [] col = "age" ->
            LET year_built == DictGet(property_data, "year_built", PyInt(NowYear)) IN
            IF ~IsNumber(year_built) THEN Conv("TypeError", PyNone)
            ELSE IF year_built.t = "int" THEN Conv("", PyInt(NowYear - year_built.n))
            ELSE Conv("", Fraction(NowYear * year_built.d - year_built.n, year_built.d))

\* the feature list of a predictor: the columns in the order of
\* feature_columns, or the first exception of the loop
FeatureList(self, each) ==
    LET failed == {i \in DOMAIN each : each[i].exc # ""}
    IN IF failed # {}
       THEN [exc |-> each[CHOOSE i \in failed : \A j \in failed : i <= j].exc,
             features |-> <<>>]
       ELSE [exc |-> "",
             features |-> [i \in DOMAIN each |->
                              Column(self.feature_columns[i], each[i].val)]]

PredictorFeatures(self, property_data) ==
    FeatureList(self, [i \in DOMAIN self.feature_columns |->
                         FeatureOf(self, self.feature_columns[i], property_data)])

\* the fitted regressor of a model.pkl, of which the model keeps the figure
\* it predicts and whether its predict takes a missing value (XGBRegressor
\* does, GradientBoostingRegressor raises ValueError for a NaN); train_models
\* saves the one of its three regressors that scored best
Regressor(predicts, takesMissing) ==
    [predicts |-> predicts, takesMissing |-> takesMissing]

\* the end of both predict functions (propertyValuePredictor.py lines
\* 365-371): the only value of the list that is not a number is None, which
\* scaler.transform casts to NaN; what predict does with it is up to the
\* regressor; max(0, prediction) is returned
ScaleAndPredict(self, f) ==
    IF f.exc # "" THEN Conv(f.exc, PyNone)
    ELSE IF /\ \E i \in DOMAIN f.features : ~IsNumber(f.features[i].value)
            /\ ~self.models.takesMissing
         THEN Conv("ValueError", PyNone)
    ELSE Conv("", IF self.models.predicts.n > 0 THEN self.models.predicts ELSE PyInt(0))

PredictFrom(self, property_data) ==
    IF ~self.is_trained THEN Conv("ValueError", PyNone)
    ELSE ScaleAndPredict(self, PredictorFeatures(self, property_data))

(***************************************************************************)
(* src/server/roi/utils/roiCalculator.py and services/roiService.py        *)
(***************************************************************************)
\* ROICalculator.calculate_comprehensive_roi: the exception it raises, or
\* the analysis, of which the model keeps annual_roi.  Line 48 multiplies
\* property_value, line 51 adds monthly_maintenance, line 164 repeats a list
\* `years` times, line 174 divides by property_value and line 191 by
\* monthly_rent
\* calculate_total_expenses and calculate_cash_flow (lines 35-66):
\* monthly_rent less the monthly expenses, which are monthly_maintenance and
\* a twelfth of 0.5% + 2% + 0.1% of property_value
monthly_cash_flow(monthly_rent, property_value, monthly_maintenance) ==
    Fraction(6000 * monthly_rent.n * property_value.d * monthly_maintenance.d
               - 13 * property_value.n * monthly_rent.d * monthly_maintenance.d
               - 6000 * monthly_maintenance.n * monthly_rent.d * property_value.d,
             6000 * monthly_rent.d * property_value.d * monthly_maintenance.d)

\* calculate_payback_period (lines 82-87)
calculate_payback_period(property_value, cash_flow) ==
    IF cash_flow.n <= 0 THEN PyInf
    ELSE Fraction(property_value.n * cash_flow.d, property_value.d * cash_flow.n * 12)

ROICalculate(monthly_rent, property_value, monthly_maintenance, years) ==
    IF ~IsNumber(property_value) \/ ~IsNumber(monthly_maintenance)
    THEN [exc |-> "TypeError"]
    ELSE IF years.t # "int" THEN [exc |-> "TypeError"]
    ELSE IF property_value.n = 0 \/ monthly_rent.n = 0
    THEN [exc |-> "ZeroDivisionError"]
    ELSE [exc |-> "",
          roi_analysis |->
            [current_metrics |->
               [annual_roi |-> IF property_value.n <= 0 THEN PyInt(0)
                               ELSE Quot(Times(monthly_rent, 1200, 1), property_value),
                payback_period |->
                    calculate_payback_period(
                        property_value,
                        monthly_cash_flow(monthly_rent, property_value,
                                          monthly_maintenance))]]]

NewService ==
    [constructed |-> TRUE, rental_predictor |-> NewPredictor,
     value_predictor |-> NewPredictor, is_initialized |-> FALSE]

RentalDir == "trained_models/Rental_Income"
ValueDir == "trained_models/Property_Value"

\* ROIService.initialize_models (lines 22-44): a FileNotFoundError of either
\* load_model is caught and the service goes on; the value returned and the
\* service after the call
initialize_models(self, fs) ==
    LET r == load_model(self.rental_predictor, fs[RentalDir])
        v == load_model(self.value_predictor, fs[ValueDir])
    IN [returned |-> TRUE,
        self |-> [self EXCEPT !.rental_predictor = r.self,
                              !.value_predictor = v.self,
                              !.is_initialized = TRUE]]

\* ROIService.predict_rental_income (lines 46-82): the exception that leaves
\* it, or the dict it returns; error = "" stands for a dict without the key
\* 'error'
\* the dict built from the first estimate (lines 57-69), or from the
\* fallback of the except block (lines 71-82) when the first one raised
RentalPrediction(trained, property_value, first) ==
    LET fallback == Times(property_value, 8, 1000)
    IN IF first.exc = ""
       THEN [exc |-> "",
             predicted_rent |-> first.val,
             rent_range |-> [min |-> Times(first.val, 8, 10),
                             max |-> Times(first.val, 12, 10)],
             confidence |-> IF trained THEN Fraction(85, 100) ELSE Fraction(60, 100),
             model_used |-> IF trained THEN "trained" ELSE "fallback",
             error |-> ""]
       ELSE IF ~IsNumber(property_value) THEN [exc |-> "TypeError"]
       ELSE [exc |-> "",
             predicted_rent |-> fallback,
             rent_range |-> [min |-> Times(fallback, 8, 10),
                             max |-> Times(fallback, 12, 10)],
             confidence |-> Fraction(50, 100),
             model_used |-> "fallback",
             error |-> first.exc]

\* the first estimate: the trained model, or 0.8% of the purchase price
RentalEstimate(self, property_data, property_value) ==
    IF self.rental_predictor.is_trained
    THEN PredictFrom(self.rental_predictor, property_data)
    ELSE IF ~IsNumber(property_value) THEN Conv("TypeError", PyNone)
    ELSE Conv("", Times(property_value, 8, 1000))

predict_rental_income(self, property_data) ==
    RentalPrediction(self.rental_predictor.is_trained,
                     DictGet(property_data, "purchase_price", PyInt(0)),
                     RentalEstimate(self, property_data,
                                    DictGet(property_data, "purchase_price", PyInt(0))))

\* lines 96-102
base_prices ==
    [Islamabad |-> 800000, Karachi |-> 600000, Lahore |-> 700000,
     Rawalpindi |-> 500000, Faisalabad |-> 400000]
DefaultBasePrice == 600000

\* ROIService.predict_property_value (lines 84-132)
\* the dict built from the first estimate (lines 107-119), or from the
\* fallback of the except block (lines 121-132) when the first one raised
ValuePrediction(trained, area_marla, first) ==
    LET fallback == Times(area_marla, DefaultBasePrice, 1)
    IN IF first.exc = ""
       THEN [exc |-> "",
             predicted_value |-> first.val,
             value_range |-> [min |-> Times(first.val, 85, 100),
                              max |-> Times(first.val, 115, 100)],
             confidence |-> IF trained THEN Fraction(90, 100) ELSE Fraction(70, 100),
             model_used |-> IF trained THEN "trained" ELSE "fallback",
             error |-> ""]
       ELSE IF ~IsNumber(area_marla) THEN [exc |-> "TypeError"]
       ELSE [exc |-> "",
             predicted_value |-> fallback,
             value_range |-> [min |-> Times(fallback, 85, 100),
                              max |-> Times(fallback, 115, 100)],
             confidence |-> Fraction(50, 100),
             model_used |-> "fallback",
             error |-> first.exc]

\* base_prices.get(city, 600000)
BasePriceOf(city) ==
    IF Len(city.s) = 1 /\ city.s[1] \in DOMAIN base_prices
    THEN base_prices[city.s[1]] ELSE DefaultBasePrice

\* the first estimate: the trained model, or the area times the base price
\* of the city
ValueEstimate(self, property_data, area_marla) ==
    IF self.value_predictor.is_trained
    THEN PredictFrom(self.value_predictor, property_data)
    ELSE IF ~IsNumber(area_marla) THEN Conv("TypeError", PyNone)
    ELSE Conv("", Times(area_marla,
                        BasePriceOf(DictGet(property_data, "city", Word("Islamabad"))),
                        1))

predict_property_value(self, property_data) ==
    ValuePrediction(self.value_predictor.is_trained,
                    DictGet(property_data, "area_marla", PyInt(0)),
                    ValueEstimate(self, property_data,
                                  DictGet(property_data, "area_marla", PyInt(0))))

\* the dict of lines 178-181
ErrorOnly(exc) == [error |-> exc]

\* lines 166-182: the result once the calculator has run
Combined(property_data, rental_prediction, value_prediction, calc) ==
    IF calc.exc # "" THEN ErrorOnly(calc.exc)
    ELSE [rental_prediction |-> rental_prediction,
          value_prediction |-> value_prediction,
          roi_analysis |-> calc.roi_analysis,
          property_data |-> property_data]

\* lines 146-155: the inputs of the calculator and its call
Calculated(property_data, rental_prediction, value_prediction) ==
    IF value_prediction.exc # "" THEN ErrorOnly(value_prediction.exc)
    ELSE Combined(property_data, rental_prediction, value_prediction,
                  ROICalculate(rental_prediction.predicted_rent,
                               DictGet(property_data, "purchase_price",
                                       value_prediction.predicted_value),
                               DictGet(property_data, "monthly_maintenance", PyInt(0)),
                               DictGet(property_data, "analysis_years", PyInt(5))))

\* lines 137-143: the value prediction follows the rental one
Valued(self, property_data, rental_prediction) ==
    IF rental_prediction.exc # "" THEN ErrorOnly(rental_prediction.exc)
    ELSE Calculated(property_data, rental_prediction,
                    predict_property_value(self, property_data))

\* ROIService.calculate_comprehensive_roi (lines 134-182)
calculate_comprehensive_roi(self, property_data) ==
    Valued(self, property_data, predict_rental_income(self, property_data))

(***************************************************************************)
(* Inputs of the ROI service                                               *)
(***************************************************************************)
\* PropertyData.dict() of routes.py has every key of the request model, an
\* optional one that was left out being None; latitude, longitude and
\* province are no fields of the request model
BasePropertyData ==
    [city |-> Word("Lahore"), location |-> Word("DHA Phase 5"),
     property_type |-> Word("House"), province |-> Absent, latitude |-> Absent,
     longitude |-> Absent, bedrooms |-> PyInt(4), bathrooms |-> PyInt(3),
     area_marla |-> PyFloat(10, 1), year_built |-> PyInt(2015),
     purchase_price |-> PyFloat(5000000, 1), monthly_maintenance |-> PyInt(0),
     analysis_years |-> PyInt(5)]

PropertyDataValues ==
    [city |-> {Word("Lahore"), Word("Quetta")},
     location |-> {Word("DHA Phase 5"), Word("Nowhere")},
     property_type |-> {Word("House"), Word("Villa")},
     bedrooms |-> {PyInt(4), PyInt(0)},
     area_marla |-> {PyFloat(10, 1), PyFloat(0, 1)},
     year_built |-> {PyInt(2015), PyNone},
     purchase_price |-> {PyFloat(5000000, 1), PyFloat(6000000, 1), PyFloat(0, 1),
                         PyNone},
     monthly_maintenance |-> {PyInt(0), PyFloat(5000, 1), PyNone},
     analysis_years |-> {PyInt(5), PyInt(0), PyNone}]

PropertyDataFieldSeq ==
    <<"city", "location", "property_type", "bedrooms", "area_marla", "year_built",
      "purchase_price", "monthly_maintenance", "analysis_years">>

PropertyDatas ==
    Variants(BasePropertyData, PropertyDataValues, PropertyDataFieldSeq, MaxDeviations)

\* what save_model of the two predictors writes: the fitted regressor (the
\* model keeps of it the figure it predicts), the LabelEncoders, the fitted
\* scaler and the list of feature columns of preprocess_data
RentalColumns ==
    <<"property_type_encoded", "location_encoded", "city_encoded", "bedrooms",
      "bathrooms", "area_marla", "price_per_marla", "bedroom_density",
      "bathroom_ratio">>
ValueColumns ==
    <<"property_type_encoded", "location_encoded", "city_encoded", "province_encoded",
      "bedrooms", "bathrooms", "area_marla", "year", "latitude", "longitude",
      "price_per_marla", "bedroom_density", "bathroom_ratio", "age">>

\* self.encoders of a fitted PropertyValuePredictor
RoiEncoders ==
    [property_type |-> << <<"Flat">>, <<"House">> >>,
     location |-> << <<"DHA Phase 5">>, <<"Gulberg">> >>,
     city |-> << <<"Karachi">>, <<"Lahore">> >>,
     province |-> << <<"Punjab">>, <<"Sindh">> >>]
\* self.encoders of a fitted RentalIncomePredictor: preprocess_data (lines
\* 110-127) fits no encoder of the province
RentalEncoders ==
    [property_type |-> << <<"Flat">>, <<"House">> >>,
     location |-> << <<"DHA Phase 5">>, <<"Gulberg">> >>,
     city |-> << <<"Karachi">>, <<"Lahore">> >>]

MissingDir ==
    [exists |-> FALSE, model |-> Missing, encoders |-> Missing, scaler |-> Missing,
     features |-> Missing]

ModelDirs(outputs, columns, encoders) ==
    {MissingDir} \cup
    { [exists |-> TRUE, model |-> m, encoders |-> e, scaler |-> c, features |-> f] :
        m \in FileOf(outputs), e \in FileOf({encoders}),
        c \in FileOf({[fitted |-> TRUE]}), f \in FileOf({columns}) }

MissingIn(dir) ==
    IF ~dir.exists THEN 1
    ELSE Cardinality({x \in {"model", "encoders", "scaler", "features"} : ~dir[x].exists})

RoiDisks ==
    { d \in { (RentalDir :> r @@ ValueDir :> v) :
                r \in ModelDirs({Regressor(PyFloat(35000, 1), TRUE),
                                Regressor(PyFloat(-200, 1), FALSE)},
                               RentalColumns, RentalEncoders),
                v \in ModelDirs({Regressor(PyFloat(6000000, 1), FALSE),
                                Regressor(PyFloat(-1, 1), TRUE)},
                               ValueColumns, RoiEncoders) } :
        MissingIn(d[RentalDir]) + MissingIn(d[ValueDir]) <= MaxMissing }

(***************************************************************************)
(* program "roi": the service of src/server/roi/routes.py, from start-up   *)
(* to the answer to a request                                              *)
(***************************************************************************)
InitRoi ==
    /\ program = "roi"
    /\ pc = "start"
    /\ files \in RoiDisks
    /\ payload = NoPayloadYet
    /\ validation = NoValidation
    /\ predictor = NewService
    /\ featureDf = NoFeatureDf
    /\ prediction = NoPrediction
    /\ nCompose = 0
    /\ nInfer = 0
    /\ outcome = ""

\* startup_event (lines 70-75): initialize_models, its value being dropped
RoiStartup ==
    /\ program = "roi"
    /\ pc = "start"
    /\ LET r == initialize_models(predictor, files) IN
       /\ predictor' = r.self
       /\ outcome' = IF r.returned THEN "initialized" ELSE "not initialized"
    /\ pc' = "ready"
    /\ UNCHANGED <<program, payload, validation, files, featureDf, prediction,
                   nCompose, nInfer>>

\* analyze_roi (lines 108-122): a result with the key 'error' is answered
\* with status 500, any other one is the body of the response
RoiAnalyze ==
    /\ program = "roi"
    /\ pc = "ready"
    /\ \E property_data \in PropertyDatas :
       \E analysis \in {calculate_comprehensive_roi(predictor, property_data)} :
          /\ payload' = [isDict |-> TRUE, items |-> property_data]
          /\ prediction' = analysis
          /\ outcome' = IF "rental_prediction" \in DOMAIN analysis THEN "200" ELSE "500"
    /\ nInfer' = nInfer + 1
    /\ pc' = "served"
    /\ UNCHANGED <<program, validation, files, predictor, featureDf, nCompose>>

\* what save_model of either predictor (rentalPredictor.py lines 220-252)
\* leaves in the directory of its predictor: it writes the four files of the
\* newly fitted predictor and then raises TypeError in json.dump of the
\* metadata, whose 'performance' holds the fitted regressor
TrainedDir(output, columns, encoders) ==
    [exists |-> TRUE,
     model |-> [exists |-> TRUE, content |-> output],
     encoders |-> [exists |-> TRUE, content |-> encoders],
     scaler |-> [exists |-> TRUE, content |-> [fitted |-> TRUE]],
     features |-> [exists |-> TRUE, content |-> columns]]

\* the disk after the two training functions of train_all_models: one that
\* got as far as save_model has written its four files, one that stopped
\* before (no data file, or an exception of preprocess_data or
\* train_models) leaves its directory as it was
TrainedDisk(fs, rental_written, value_written) ==
    (RentalDir :> IF rental_written
                  THEN TrainedDir(Regressor(PyFloat(42000, 1), TRUE), RentalColumns,
                                  RentalEncoders)
                  ELSE fs[RentalDir])
    @@ (ValueDir :> IF value_written
                    THEN TrainedDir(Regressor(PyFloat(7500000, 1), FALSE), ValueColumns,
                                    RoiEncoders)
                    ELSE fs[ValueDir])

\* what pd.read_csv raises for a data file that is there and cannot be
\* parsed; neither training function catches it (rentalPredictor.py lines
\* 356-361 catch FileNotFoundError only)
ReadCsvErrors == {"EmptyDataError", "ParserError"}

\* how train_rental_model and train_property_value_model end: read_csv
\* raises one of ReadCsvErrors, which leaves the function; or None is
\* returned, with the directory unchanged (no data file, or an exception of
\* preprocess_data or train_models) or with the four files written (the
\* TypeError that ends save_model).  The predictor is returned in no run
TrainingOutcomes == {"unchanged", "written"} \cup ReadCsvErrors

\* ROIService.train_all_models (lines 287-325): the rental model is trained,
\* then the value model, then initialize_models loads what is on disk into
\* the predictors of the running service; 'success' is False in every
\* result, since both training functions return None.  An exception that
\* leaves a training function ends the try block: what follows (lines
\* 318-323) is skipped, the reload too, and results holds 'error'
train_all_models(self, fs, rental, value) ==
    IF rental \in ReadCsvErrors
    THEN [results |-> [error |-> rental, overall |-> [success |-> FALSE]],
          files |-> fs,
          self |-> self]
    ELSE IF value \in ReadCsvErrors
    THEN [results |-> [rental_model |-> [success |-> FALSE],
                       error |-> value,
                       overall |-> [success |-> FALSE]],
          files |-> TrainedDisk(fs, rental = "written", FALSE),
          self |-> self]
    ELSE [results |-> [rental_model |-> [success |-> FALSE],
                       value_model |-> [success |-> FALSE],
                       overall |-> [success |-> FALSE]],
          files |-> TrainedDisk(fs, rental = "written", value = "written"),
          self |-> initialize_models(self, TrainedDisk(fs, rental = "written",
                                                       value = "written")).self]

\* train_models of routes.py (lines 154-167): the request POST /train-models.
\* TrainingResponse (lines 60-64) requires rental_model, value_model and
\* overall: results without one of them raise ValidationError at line 165,
\* and lines 166-167 answer 500
RoiTrain ==
    /\ program = "roi"
    /\ pc = "ready"
    /\ \E rental \in TrainingOutcomes, value \in TrainingOutcomes :
       \E r \in {train_all_models(predictor, files, rental, value)} :
          /\ files' = r.files
          /\ predictor' = r.self
          /\ IF {"rental_model", "value_model", "overall"} \subseteq DOMAIN r.results
             THEN /\ prediction' = r.results
                  /\ outcome' = "200"
             ELSE /\ prediction' = ErrorOnly("ValidationError")
                  /\ outcome' = "500"
    /\ pc' = "retrained"
    /\ UNCHANGED <<program, payload, validation, featureDf, nCompose, nInfer>>

(***************************************************************************)
(* program "load": load_model of a predictor of src/server/roi/models,     *)
(* called on one predictor with the directories that training runs saved   *)
(***************************************************************************)
\* a second model_dir, the argument of load_model
RetrainedDir == "trained_models/Rental_Income_retrained"

\* what save_model (lines 220-252) wrote after training run `run` on a data
\* set that gave `columns`: the fitted regressor (of which the model keeps
\* the run and the input width n_features_in_), the encoders, the scaler and
\* the list of feature columns
SavedSet(run, columns) ==
    [model |-> [run |-> run, n_features_in_ |-> Len(columns)],
     encoders |-> [run |-> run],
     scaler |-> [run |-> run],
     features |-> columns]

\* run 1 on a data set with the column location_city, run 2 on one without:
\* preprocess_data (lines 124-127) then leaves city_encoded out
SavedSets ==
    << SavedSet(1, RentalColumns),
       SavedSet(2, SelectSeq(RentalColumns, LAMBDA c : c # "city_encoded")) >>

\* a directory that holds the files of one saved set, or some of them
SavedDirs(set) ==
    {MissingDir} \cup
    { [exists |-> TRUE, model |-> m, encoders |-> e, scaler |-> c, features |-> f] :
        m \in FileOf({set.model}), e \in FileOf({set.encoders}),
        c \in FileOf({set.scaler}), f \in FileOf({set.features}) }

LoadDisks ==
    { d \in { (RentalDir :> a @@ RetrainedDir :> b) :
                a \in SavedDirs(SavedSets[1]), b \in SavedDirs(SavedSets[2]) } :
        MissingIn(d[RentalDir]) + MissingIn(d[RetrainedDir]) <= MaxMissing }

InitLoad ==
    /\ program = "load"
    /\ pc = "start"
    /\ files \in LoadDisks
    /\ payload = NoPayloadYet
    /\ validation = NoValidation
    /\ predictor = NewPredictor
    /\ featureDf = NoFeatureDf
    /\ prediction = NoPrediction
    /\ nCompose = 0
    /\ nInfer = 0
    /\ outcome = ""

\* one call of load_model (lines 254-272), the first or the second of the
\* run, on either directory; outcome is the exception that left it
LoadModelCall ==
    /\ program = "load"
    /\ pc \in {"start", "loaded"}
    /\ \E dir \in DOMAIN files :
       \E r \in {load_model(predictor, files[dir])} :
          /\ predictor' = r.self
          /\ outcome' = r.exc
    /\ pc' = IF pc = "start" THEN "loaded" ELSE "reloaded"
    /\ UNCHANGED <<program, payload, validation, files, featureDf, prediction,
                   nCompose, nInfer>>

(***************************************************************************)
(* program "grade": ROICalculator.get_investment_grade                     *)
(* (src/server/roi/utils/roiCalculator.py) on one roi_analysis             *)
(***************************************************************************)
\* x >= k for a float or an int x: False for NaN, True for +inf
NumGE(x, k) == \/ x.t = "inf"
               \/ Finite(x) /\ AtLeast(x, k)

\* the rule table of the specification, best tier first
GradeTiers ==
    << [grade |-> "A+", annual_roi |-> 12, cap_rate |-> 8, irr |-> 15],
       [grade |-> "A", annual_roi |-> 10, cap_rate |-> 6, irr |-> 12],
       [grade |-> "B+", annual_roi |-> 8, cap_rate |-> 5, irr |-> 10],
       [grade |-> "B", annual_roi |-> 6, cap_rate |-> 4, irr |-> 8],
       [grade |-> "C", annual_roi |-> 4, cap_rate |-> 3, irr |-> 6] >>

MeetsTier(roi_analysis, k) ==
    /\ NumGE(roi_analysis.current_metrics.annual_roi, GradeTiers[k].annual_roi)
    /\ NumGE(roi_analysis.current_metrics.cap_rate, GradeTiers[k].cap_rate)
    /\ NumGE(roi_analysis.investment_metrics.irr, GradeTiers[k].irr)

\* the grade of the first tier that is met, D when none is
FirstTierMet(roi_analysis) ==
    IF \E k \in DOMAIN GradeTiers : MeetsTier(roi_analysis, k)
    THEN GradeTiers[CHOOSE k \in DOMAIN GradeTiers :
                        /\ MeetsTier(roi_analysis, k)
                        /\ \A j \in 1..(k - 1) : ~MeetsTier(roi_analysis, j)].grade
    ELSE "D"

\* the tiers tried from the worst one upwards
GradeBottomUp(roi_analysis) ==
    IF \E k \in DOMAIN GradeTiers : MeetsTier(roi_analysis, k)
    THEN [grade |-> GradeTiers[CHOOSE k \in DOMAIN GradeTiers :
                        /\ MeetsTier(roi_analysis, k)
                        /\ \A j \in (k + 1)..Len(GradeTiers) : ~MeetsTier(roi_analysis, j)].grade,
          recommendation |-> ""]
    ELSE [grade |-> "D", recommendation |-> ""]

\* the grades of the source with the label of the best tier replaced
MislabelledTopTier(roi_analysis) ==
    IF MeetsTier(roi_analysis, 1) THEN [grade |-> "B", recommendation |-> ""]
    ELSE [grade |-> FirstTierMet(roi_analysis), recommendation |-> ""]

\* get_investment_grade (lines 202-236): grade and recommendation
get_investment_grade(roi_analysis) ==
    IF /\ NumGE(roi_analysis.current_metrics.annual_roi, 12)
       /\ NumGE(roi_analysis.current_metrics.cap_rate, 8)
       /\ NumGE(roi_analysis.investment_metrics.irr, 15)
    THEN [grade |-> "A+", recommendation |-> "Excellent investment opportunity"]
    ELSE IF /\ NumGE(roi_analysis.current_metrics.annual_roi, 10)
            /\ NumGE(roi_analysis.current_metrics.cap_rate, 6)
            /\ NumGE(roi_analysis.investment_metrics.irr, 12)
    THEN [grade |-> "A", recommendation |-> "Very good investment opportunity"]
    ELSE IF /\ NumGE(roi_analysis.current_metrics.annual_roi, 8)
            /\ NumGE(roi_analysis.current_metrics.cap_rate, 5)
            /\ NumGE(roi_analysis.investment_metrics.irr, 10)
    THEN [grade |-> "B+", recommendation |-> "Good investment opportunity"]
    ELSE IF /\ NumGE(roi_analysis.current_metrics.annual_roi, 6)
            /\ NumGE(roi_analysis.current_metrics.cap_rate, 4)
            /\ NumGE(roi_analysis.investment_metrics.irr, 8)
    THEN [grade |-> "B", recommendation |-> "Moderate investment opportunity"]
    ELSE IF /\ NumGE(roi_analysis.current_metrics.annual_roi, 4)
            /\ NumGE(roi_analysis.current_metrics.cap_rate, 3)
            /\ NumGE(roi_analysis.investment_metrics.irr, 6)
    THEN [grade |-> "C", recommendation |-> "Fair investment opportunity"]
    ELSE [grade |-> "D", recommendation |-> "Poor investment opportunity"]

\* calculate_grade of test_investment_grading (src/ml_training/
\* test_roi_system.py lines 89-101), the reference of the test
calculate_grade(annual_roi, cap_rate, irr) ==
    IF NumGE(annual_roi, 12) /\ NumGE(cap_rate, 8) /\ NumGE(irr, 15) THEN "A+"
    ELSE IF NumGE(annual_roi, 10) /\ NumGE(cap_rate, 6) /\ NumGE(irr, 12) THEN "A"
    ELSE IF NumGE(annual_roi, 8) /\ NumGE(cap_rate, 5) /\ NumGE(irr, 10) THEN "B+"
    ELSE IF NumGE(annual_roi, 6) /\ NumGE(cap_rate, 4) /\ NumGE(irr, 8) THEN "B"
    ELSE IF NumGE(annual_roi, 4) /\ NumGE(cap_rate, 3) /\ NumGE(irr, 6) THEN "C"
    ELSE "D"

\* the analyses graded: figures on both sides of every threshold, the test
\* cases of test_investment_grading among them, NaN and +inf
RoiAnalyses ==
    { [current_metrics |-> [annual_roi |-> a, cap_rate |-> c],
       investment_metrics |-> [irr |-> i]] :
        a \in {PyInt(3), PyFloat(4, 1), PyInt(5), PyFloat(6, 1), PyInt(7), PyFloat(8, 1),
               PyInt(9), PyFloat(10, 1), PyInt(11), PyFloat(119, 10), PyFloat(12, 1),
               PyInt(15), PyNaN},
        c \in {PyInt(2), PyFloat(3, 1), PyInt(4), PyInt(5), PyFloat(6, 1), PyInt(7),
               PyFloat(799, 100), PyFloat(8, 1), PyInt(10)},
        i \in {PyFloat(-5, 1), PyInt(4), PyFloat(6, 1), PyInt(7), PyFloat(8, 1), PyInt(9),
               PyFloat(10, 1), PyInt(11), PyFloat(12, 1), PyInt(13), PyFloat(15, 1),
               PyInt(18), PyInf} }

InitGrade ==
    /\ program = "grade"
    /\ pc = "start"
    /\ files = <<>>
    /\ \E roi_analysis \in RoiAnalyses : payload = [isDict |-> TRUE, items |-> roi_analysis]
    /\ validation = NoValidation
    /\ predictor = NoPredictor
    /\ featureDf = NoFeatureDf
    /\ prediction = NoPrediction
    /\ nCompose = 0
    /\ nInfer = 0
    /\ outcome = ""

\* one call of get_investment_grade
GradeCall ==
    /\ program = "grade"
    /\ pc = "start"
    /\ prediction' = get_investment_grade(payload.items)
    /\ pc' = "returned"
    /\ UNCHANGED <<program, payload, validation, files, predictor, featureDf,
                   nCompose, nInfer, outcome>>

(***************************************************************************)
(* program "calc": ROICalculator.calculate_comprehensive_roi on figures    *)
(* that are not negative                                                   *)
(***************************************************************************)
\* monthly_rent, property_value, monthly_maintenance and years of the call
CalcInputs ==
    [monthly_rent : {PyInt(0), PyFloat(13, 1), PyInt(1000), PyInt(40000)},
     property_value : {PyInt(0), PyInt(6000), PyInt(5000000)},
     monthly_maintenance : {PyInt(0), PyInt(5000)},
     years : {PyInt(0), PyInt(5)}]

InitCalc ==
    /\ program = "calc"
    /\ pc = "start"
    /\ files = <<>>
    /\ \E args \in CalcInputs : payload = [isDict |-> TRUE, items |-> args]
    /\ validation = NoValidation
    /\ predictor = NoPredictor
    /\ featureDf = NoFeatureDf
    /\ prediction = NoPrediction
    /\ nCompose = 0
    /\ nInfer = 0
    /\ outcome = ""

\* one call of calculate_comprehensive_roi (lines 141-200); outcome is the
\* exception that left it
CalcCall ==
    /\ program = "calc"
    /\ pc = "start"
    /\ \E r \in {ROICalculate(payload.items.monthly_rent, payload.items.property_value,
                              payload.items.monthly_maintenance, payload.items.years)} :
          /\ prediction' = r
          /\ outcome' = r.exc
    /\ pc' = "returned"
    /\ UNCHANGED <<program, payload, validation, files, predictor, featureDf,
                   nCompose, nInfer>>

(***************************************************************************)
(* program "irr": ROICalculator.calculate_irr, one pass of its loop per    *)
(* step; the floats are exact fractions                                    *)
(***************************************************************************)
RatAdd(x, y) == Fraction(x.n * y.d + y.n * x.d, x.d * y.d)

RECURSIVE RatPow(_, _)
RatPow(x, k) == IF k = 0 THEN PyFloat(1, 1)
                ELSE Fraction(x.n * RatPow(x, k - 1).n, x.d * RatPow(x, k - 1).d)

\* the sum of cash_flow * weight / base ** (i + shift) over the cash flows
\* from the i-th on, i counted from 1 as `i + 1` of the source, the weight
\* being i of that count when weighted and 1 when not
RECURSIVE Discounted(_, _, _, _, _)
Discounted(cash_flows, base, i, shift, weighted) ==
    IF i > Len(cash_flows) THEN PyFloat(0, 1)
    ELSE RatAdd(Quot(Fraction(cash_flows[i] * (IF weighted THEN i ELSE 1), 1),
                     RatPow(base, i + shift)),
                Discounted(cash_flows, base, i + 1, shift, weighted))

\* npv_function (lines 116-120): a division by (1 + rate) ** (i + 1) = 0.0
\* raises ZeroDivisionError
npv_function(initial_investment, cash_flows, rate) ==
    IF RatAdd(PyInt(1), rate).n = 0 /\ Len(cash_flows) > 0
    THEN Conv("ZeroDivisionError", PyNone)
    ELSE Conv("", RatAdd(Fraction(-initial_investment, 1),
                         Discounted(cash_flows, RatAdd(PyInt(1), rate), 1, 0, FALSE)))

\* lines 130-132
derivative(cash_flows, rate) ==
    Times(Discounted(cash_flows, RatAdd(PyInt(1), rate), 1, 1, TRUE), -1, 1)

\* range(100) of line 124
MaxNewtonIterations == 100
\* abs(npv) < 1e-6 of line 126: 1 / NpvTolerance
NpvTolerance == 1000000

\* abs(x) < 1 / tolerance
WithinTolerance(x, tolerance) == (x.d - 1) \div tolerance >= Abs(x.n)

\* the function left with `return rate * 100` (line 139)
IrrReturned(rate, iterations) ==
    [raised |-> "", rate |-> rate, iterations |-> iterations,
     irr |-> Times(rate, 100, 1)]

\* one pass of the loop of lines 124-137 with the npv and the derivative of
\* the current rate, `iterations` passes having been made before: the break
\* of line 127, the break of line 135 (a derivative below 1e-10 is 0 among
\* the fractions used), or the Newton step, after the last of which the
\* loop ends
NewtonPass(rate, iterations, npv, slope) ==
    IF npv.exc # ""
    THEN [raised |-> npv.exc, rate |-> rate, iterations |-> iterations + 1, irr |-> PyNone]
    ELSE IF WithinTolerance(npv.val, NpvTolerance)
    THEN IrrReturned(rate, iterations + 1)
    ELSE IF slope.n = 0
    THEN IrrReturned(rate, iterations + 1)
    ELSE IF iterations + 1 = MaxNewtonIterations
    THEN IrrReturned(RatAdd(rate, Times(Quot(npv.val, slope), -1, 1)), iterations + 1)
    ELSE [raised |-> "", rate |-> RatAdd(rate, Times(Quot(npv.val, slope), -1, 1)),
          iterations |-> iterations + 1, irr |-> PyNone]

\* initial_investment and cash_flows of the call: no cash flows, a zero
\* cash flow, the rate of 10% being the root, and investments of twice the
\* discounted cash flow
IrrInputs ==
    { [initial_investment |-> 0, cash_flows |-> <<>>],
      [initial_investment |-> 100, cash_flows |-> <<>>],
      [initial_investment |-> 0, cash_flows |-> <<0>>],
      [initial_investment |-> 100, cash_flows |-> <<0>>],
      [initial_investment |-> 10, cash_flows |-> <<11>>],
      [initial_investment |-> 20, cash_flows |-> <<22>>],
      [initial_investment |-> 110, cash_flows |-> <<11, 121>>],
      [initial_investment |-> 20, cash_flows |-> <<11>>],
      [initial_investment |-> 40, cash_flows |-> <<22>>] }

\* line 123: rate = 0.1
InitIrr ==
    /\ program = "irr"
    /\ pc = "loop"
    /\ files = <<>>
    /\ \E args \in IrrInputs : payload = [isDict |-> TRUE, items |-> args]
    /\ validation = NoValidation
    /\ predictor = NoPredictor
    /\ featureDf = NoFeatureDf
    /\ prediction = [raised |-> "", rate |-> PyFloat(1, 10), iterations |-> 0,
                     irr |-> PyNone]
    /\ nCompose = 0
    /\ nInfer = 0
    /\ outcome = ""

IrrIterate ==
    /\ program = "irr"
    /\ pc = "loop"
    /\ prediction.iterations < MaxNewtonIterations
    /\ \E r \in {NewtonPass(prediction.rate, prediction.iterations,
                            npv_function(payload.items.initial_investment,
                                         payload.items.cash_flows, prediction.rate),
                            derivative(payload.items.cash_flows, prediction.rate))} :
          /\ prediction' = r
          /\ pc' = IF r.raised # "" THEN "raised"
                   ELSE IF r.irr # PyNone THEN "returned" ELSE "loop"
          /\ outcome' = r.raised
    /\ UNCHANGED <<program, payload, validation, files, predictor, featureDf,
                   nCompose, nInfer>>

\* ---------------------------------------------------------------------
\* Training-time feature engineering of the bath to bedroom ratio
\* ---------------------------------------------------------------------

\* ml_training/train_decision_tree.py lines 73-74: the bedrooms column has
\* its zeros replaced by one, then baths is divided by it
decision_tree_bath_bedroom_ratio(baths, bedrooms) ==
    Quot(baths, IF bedrooms.n = 0 THEN PyInt(1) ELSE bedrooms)

\* scripts/kaggle_train_backup.py line 104:
\* np.where(bedrooms > 0, baths / bedrooms, 0)
kaggle_bath_bedroom_ratio(baths, bedrooms) ==
    IF bedrooms.n > 0 THEN Quot(baths, bedrooms) ELSE PyFloat(0, 1)

(***************************************************************************)
(* Program "prep": DataPreprocessor.preprocess of                          *)
(* src/n/data_preprocessing.py.                                            *)
(*                                                                         *)
(* A data frame is a bag of rows: a function from the rows it holds to the *)
(* number of times each occurs.  A row is a record of its columns; the     *)
(* column 'Unnamed: 0' of the input is the field unnamed.  Numbers of the  *)
(* corpus are integers (prices in units of 100,000); the quantiles are     *)
(* fractions.  The order of the rows is left out: the only stage that      *)
(* depends on it is the pseudo-random sample of balanceDataset, which is   *)
(* modelled as the choice of any sample of the requested size.             *)
(***************************************************************************)
PrepRow(city, property_type, location, bedrooms, baths, area, price) ==
    [unnamed |-> 0, city |-> city, property_type |-> property_type,
     location |-> location, purpose |-> "For Sale", bedrooms |-> bedrooms,
     baths |-> baths, Area_in_Marla |-> area, price |-> price]

\* df[mask]
Where(df, Keep(_)) == [r \in {x \in DOMAIN df : Keep(x)} |-> df[r]]
\* len(df)
RowCount(df) == BagCardinality(df)
\* df with a function applied to each row
Assign(df, F(_)) == BagOfAll(F, df)
\* the record r without the fields of cols
DropFields(r, cols) == [f \in DOMAIN r \ cols |-> r[f]]
\* the record r with the field f set to v
WithField(r, f, v) == [g \in DOMAIN r \cup {f} |-> IF g = f THEN v ELSE r[g]]

\* Series.quantile(q) of the price column for q = qn/qd, by linear
\* interpolation between the two order statistics around (n - 1) * q;
\* NaN for an empty column
OrderStatistic(df, k) ==
    CHOOSE p \in {r.price : r \in DOMAIN df} :
        /\ RowCount(Where(df, LAMBDA r : r.price < p)) <= k
        /\ RowCount(Where(df, LAMBDA r : r.price <= p)) > k
Interpolate(lo, hi, rem, qd) == Fraction(lo * qd + rem * (hi - lo), qd)
Quantile(df, qn, qd) ==
    IF DOMAIN df = {} THEN PyNaN
    ELSE Interpolate(OrderStatistic(df, ((RowCount(df) - 1) * qn) \div qd),
                     OrderStatistic(df, IF ((RowCount(df) - 1) * qn) % qd = 0
                                        THEN ((RowCount(df) - 1) * qn) \div qd
                                        ELSE ((RowCount(df) - 1) * qn) \div qd + 1),
                     ((RowCount(df) - 1) * qn) % qd, qd)

\* lines 22, 23: self.minRoomsPerMarla = 0.15, self.maxRoomsPerMarla = 1.8
PrepMinRoomsPerMarla == PyFloat(3, 20)
PrepMaxRoomsPerMarla == PyFloat(9, 5)

\* lines 46-47
filterCities(df) ==
    Where(df, LAMBDA r : r.city \in {"Karachi", "Lahore", "Islamabad"})
\* lines 60-61
filterPropertyTypes(df) ==
    Where(df, LAMBDA r : r.property_type \in {"House", "Flat", "Penthouse"})
\* validateRoomAreaRatios without its mask on the rooms per marla
KeepEveryRatio(df) ==
    Where(Assign(df, LAMBDA r : WithField(r, "totalRooms", r.bedrooms + r.baths)),
          LAMBDA r : r.Area_in_Marla > 0)

\* lines 74-84: totalRooms is added to every row, the rows of no area go,
\* then the rows whose rooms per marla are outside [0.15, 1.8]
validateRoomAreaRatios(df) ==
    Where(Assign(df, LAMBDA r : WithField(r, "totalRooms", r.bedrooms + r.baths)),
          LAMBDA r : /\ r.Area_in_Marla > 0
                     /\ r.totalRooms * PrepMinRoomsPerMarla.d
                            >= PrepMinRoomsPerMarla.n * r.Area_in_Marla
                     /\ r.totalRooms * PrepMaxRoomsPerMarla.d
                            <= PrepMaxRoomsPerMarla.n * r.Area_in_Marla)
\* lines 97-103
HardCaps(df) ==
    Where(df, LAMBDA r : /\ r.price > 0
                         /\ r.bedrooms <= 10
                         /\ r.baths <= 10
                         /\ r.Area_in_Marla <= 100
                         /\ r.Area_in_Marla >= 1)
\* lines 108-111: a comparison with NaN is False
WithinCutoffs(df, priceQ005, priceQ995) ==
    Where(df, LAMBDA r : /\ Finite(priceQ005) /\ Finite(priceQ995)
                         /\ r.price * priceQ005.d >= priceQ005.n
                         /\ r.price * priceQ995.d <= priceQ995.n)
\* lines 105-106 on the rows that passed the hard caps
Cutoffs(capped) ==
    [priceQ005 |-> Quantile(capped, 5, 1000),
     priceQ995 |-> Quantile(capped, 995, 1000)]
\* handleOutliers with the percentiles taken before the hard caps
CutoffsBeforeCaps(df) ==
    [cutoffs |-> Cutoffs(df),
     df |-> WithinCutoffs(HardCaps(df), Cutoffs(df).priceQ005, Cutoffs(df).priceQ995)]

\* lines 92-118
handleOutliers(df) ==
    [cutoffs |-> Cutoffs(HardCaps(df)),
     df |-> WithinCutoffs(HardCaps(df), Cutoffs(HardCaps(df)).priceQ005,
                          Cutoffs(HardCaps(df)).priceQ995)]

\* line 124: locationCounts < 20
RareLocationCount == 20
LocationCount(df, location) ==
    RowCount(Where(df, LAMBDA r : r.location = location))
\* lines 123-127
groupRareLocations(df) ==
    Assign(df, LAMBDA r :
        IF LocationCount(df, r.location) < RareLocationCount
        THEN WithField(r, "location", "Other_Location") ELSE r)

CityDf(df, city) == Where(df, LAMBDA r : r.city = city)
\* lines 139-140: the least count of the cities that df holds
MinCityCount(df) ==
    IF DOMAIN df = {} THEN 0
    ELSE CHOOSE n \in {RowCount(CityDf(df, r.city)) : r \in DOMAIN df} :
            \A r \in DOMAIN df : n <= RowCount(CityDf(df, r.city))
\* lines 146-151: cityDf.sample(n=minCount, random_state=42) when the city
\* has more rows than minCount, else cityDf
CitySamples(cityDf, minCount) ==
    IF RowCount(cityDf) > minCount
    THEN {s \in SubBag(cityDf) : RowCount(s) = minCount}
    ELSE {cityDf}
\* lines 139-155: the frames that balanceDataset can leave in self.df
balanceDataset(df) ==
    { k (+) l (+) i :
        k \in CitySamples(CityDf(df, "Karachi"), MinCityCount(df)),
        l \in CitySamples(CityDf(df, "Lahore"), MinCityCount(df)),
        i \in CitySamples(CityDf(df, "Islamabad"), MinCityCount(df)) }

\* lines 164-168: totalRooms is there since validateRoomAreaRatios
createEngineeredFeatures(df) ==
    Assign(df, LAMBDA r :
        [f \in DOMAIN r \cup {"totalRooms", "cityMedianPrice", "locationMedianPrice"} |->
            CASE f = "cityMedianPrice" -> Quantile(CityDf(df, r.city), 1, 2)
              [] f = "locationMedianPrice" ->
                    Quantile(Where(df, LAMBDA x : x.location = r.location), 1, 2)
              [] f = "totalRooms" /\ f \notin DOMAIN r -> r.bedrooms + r.baths
              [] OTHER -> r[f]])

\* line 177: np.log1p(price), kept as the price it is the logarithm of
Log1p(price) == [log1p |-> price]
applyLogTransform(df) ==
    Assign(df, LAMBDA r : WithField(r, "logPrice", Log1p(r.price)))

\* sorted() of the texts that occur in the categorical columns
Alphabetical ==
    <<"Clifton", "DHA Defence", "F-7", "Flat", "For Sale", "Gulberg", "House",
      "Islamabad", "Karachi", "Lahore", "Other_Location", "Penthouse", "Punjab",
      "Sindh">>
\* lines 191-193: LabelEncoder().fit(column).classes_
FittedClasses(df, col) ==
    SelectSeq(Alphabetical, LAMBDA v : \E r \in DOMAIN df : r[col] = v)
\* lines 196-200: what TargetEncoder.fit keeps of a location, the number of
\* its rows and their targets
TargetStatistics(df, location) ==
    [count |-> LocationCount(df, location),
     targets |-> BagOfAll(LAMBDA r : r.logPrice,
                          Where(df, LAMBDA r : r.location = location))]
TargetEncoderFit(df) ==
    [location \in {r.location : r \in DOMAIN df} |-> TargetStatistics(df, location)]
\* lines 187-203
EncodedRow(df, r) ==
    [f \in (DOMAIN r \ {"property_type", "location", "city", "purpose"})
           \cup {"property_typeEncoded", "cityEncoded", "purposeEncoded",
                 "locationTargetEncoded"} |->
        CASE f = "property_typeEncoded" ->
                IndexOf(FittedClasses(df, "property_type"), r.property_type) - 1
          [] f = "cityEncoded" -> IndexOf(FittedClasses(df, "city"), r.city) - 1
          [] f = "purposeEncoded" -> IndexOf(FittedClasses(df, "purpose"), r.purpose) - 1
          [] f = "locationTargetEncoded" -> TargetStatistics(df, r.location)
          [] OTHER -> r[f]]
encodeCategoricalVariables(df) ==
    [labelEncoders |-> [col \in {"property_type", "city", "purpose"} |->
                            FittedClasses(df, col)],
     targetEncoder |-> TargetEncoderFit(df),
     df |-> Assign(df, LAMBDA r : EncodedRow(df, r))]

\* lines 220-225
preprocessorArtifacts(self, df) ==
    [labelEncoders |-> self.labelEncoders,
     targetEncoder |-> self.targetEncoder,
     cityMedianPrices |->
        [c \in {r.cityEncoded : r \in DOMAIN df} |->
            Quantile(Where(df, LAMBDA r : r.cityEncoded = c), 1, 2)],
     locationMedianPrices |->
        [c \in {r.locationTargetEncoded : r \in DOMAIN df} |->
            Quantile(Where(df, LAMBDA r : r.locationTargetEncoded = c), 1, 2)]]

\* the rows of the input file that the filters are there for, each with
\* the stage that takes it out of the corpus
OddRows ==
    { PrepRow("Multan", "House", "Cantt", 3, 3, 5, 1),          \* filterCities
      PrepRow("Karachi", "Plot", "DHA Defence", 3, 3, 5, 1),     \* filterPropertyTypes
      PrepRow("Karachi", "House", "DHA Defence", 1, 0, 10, 1),   \* 0.1 rooms per marla
      PrepRow("Lahore", "House", "Gulberg", 5, 5, 5, 9000),      \* 2 rooms per marla
      PrepRow("Karachi", "House", "DHA Defence", 3, 3, 0, 90),   \* no area
      PrepRow("Lahore", "House", "Gulberg", 2, 1, 20, 200),      \* 0.15, stays
      PrepRow("Islamabad", "Flat", "F-7", 5, 4, 5, 150),         \* 1.8, stays
      PrepRow("Karachi", "House", "DHA Defence", 3, 3, 5, 0),    \* price 0
      PrepRow("Karachi", "House", "DHA Defence", 11, 4, 10, 9000), \* bedrooms > 10
      PrepRow("Lahore", "House", "Gulberg", 8, 8, 101, 9000),    \* area > 100
      PrepRow("Karachi", "House", "Clifton", 3, 3, 5, 2),        \* below the 0.5th percentile
      PrepRow("Lahore", "Penthouse", "Gulberg", 4, 4, 10, 5000) } \* above the 99.5th
MaxOddRows == 2
\* the input files: many rows of one kind per city, and a few odd rows
InputFiles ==
    { [r \in {PrepRow("Karachi", "House", "DHA Defence", 3, 3, 5, 90),
              PrepRow("Lahore", "House", "Gulberg", 4, 4, 10, 200),
              PrepRow("Islamabad", "Flat", "F-7", 2, 2, 5, 150)} |->
            CASE r.city = "Karachi" -> k [] r.city = "Lahore" -> l [] OTHER -> i]
        (+) SetToBag(odd) :
        k \in {20, 24}, l \in {4, 20}, i \in {4, 21},
        odd \in {S \in SUBSET OddRows : Cardinality(S) <= MaxOddRows} }

InitPrep ==
    /\ program = "prep"
    /\ pc = "start"
    /\ \E corpus \in InputFiles :
          /\ files = [inputFile |-> corpus]
          /\ payload = [isDict |-> FALSE, items |-> corpus]
    /\ validation = NoValidation
    /\ predictor = [labelEncoders |-> <<>>, targetEncoder |-> PyNone]
    /\ featureDf = NoFeatureDf
    /\ prediction = PyNone
    /\ nCompose = 0
    /\ nInfer = 0
    /\ outcome = ""

\* one stage of the chain of lines 246-259: self.df becomes df
PrepStage(from, to, df) ==
    /\ program = "prep"
    /\ pc = from
    /\ pc' = to
    /\ featureDf' = df
    /\ UNCHANGED <<program, payload, validation, files, nCompose, nInfer, outcome>>

\* lines 25-29
PrepLoadData ==
    /\ PrepStage("start", "loadData", files.inputFile)
    /\ UNCHANGED <<predictor, prediction>>
\* lines 31-40
PrepDropUnnecessaryColumns ==
    /\ PrepStage("loadData", "dropUnnecessaryColumns",
                 Assign(featureDf, LAMBDA r : DropFields(r, {"unnamed"})))
    /\ UNCHANGED <<predictor, prediction>>
PrepFilterCities ==
    /\ PrepStage("dropUnnecessaryColumns", "filterCities", filterCities(featureDf))
    /\ UNCHANGED <<predictor, prediction>>
PrepFilterPropertyTypes ==
    /\ PrepStage("filterCities", "filterPropertyTypes", filterPropertyTypes(featureDf))
    /\ UNCHANGED <<predictor, prediction>>
PrepValidateRoomAreaRatios ==
    /\ PrepStage("filterPropertyTypes", "validateRoomAreaRatios",
                 validateRoomAreaRatios(featureDf))
    /\ UNCHANGED <<predictor, prediction>>
PrepHandleOutliers ==
    /\ program = "prep"
    /\ pc = "validateRoomAreaRatios"
    /\ \E r \in {handleOutliers(featureDf)} :
          /\ PrepStage("validateRoomAreaRatios", "handleOutliers", r.df)
          /\ prediction' = r.cutoffs
    /\ UNCHANGED predictor
PrepGroupRareLocations ==
    /\ PrepStage("handleOutliers", "groupRareLocations", groupRareLocations(featureDf))
    /\ UNCHANGED <<predictor, prediction>>
PrepBalanceDataset ==
    /\ program = "prep"
    /\ pc = "groupRareLocations"
    /\ \E df \in balanceDataset(featureDf) :
          PrepStage("groupRareLocations", "balanceDataset", df)
    /\ UNCHANGED <<predictor, prediction>>
PrepCreateEngineeredFeatures ==
    /\ PrepStage("balanceDataset", "createEngineeredFeatures",
                 createEngineeredFeatures(featureDf))
    /\ UNCHANGED <<predictor, prediction>>
PrepApplyLogTransform ==
    /\ PrepStage("createEngineeredFeatures", "applyLogTransform",
                 applyLogTransform(featureDf))
    /\ UNCHANGED <<predictor, prediction>>
PrepEncodeCategoricalVariables ==
    /\ program = "prep"
    /\ pc = "applyLogTransform"
    /\ \E r \in {encodeCategoricalVariables(featureDf)} :
          /\ PrepStage("applyLogTransform", "encodeCategoricalVariables", r.df)
          /\ predictor' = [labelEncoders |-> r.labelEncoders,
                           targetEncoder |-> r.targetEncoder]
    /\ UNCHANGED prediction
\* lines 207-239: reorderColumns changes the order of the columns only, which
\* a row of the model does not have; saveCleanedData writes the two files
PrepSaveCleanedData ==
    /\ program = "prep"
    /\ pc = "encodeCategoricalVariables"
    /\ pc' = "saveCleanedData"
    /\ files' = [inputFile |-> files.inputFile,
                 outputFile |-> featureDf,
                 preprocessor_artifacts |-> preprocessorArtifacts(predictor, featureDf)]
    /\ UNCHANGED <<program, payload, validation, predictor, featureDf, prediction,
                   nCompose, nInfer, outcome>>

(***************************************************************************)
(* Program "kaggle": main() of src/scripts/kaggle_train.py.  Data frames   *)
(* are bags of rows as in program "prep"; prices are in PKR.               *)
(***************************************************************************)
KaggleRow(property_type, location, city, purpose, bedrooms, baths, area_size, price) ==
    [unnamed |-> 0, property_type |-> property_type, location |-> location,
     city |-> city, province_name |-> IF city = "Karachi" THEN "Sindh" ELSE "Punjab",
     purpose |-> purpose, price |-> price, bedrooms |-> bedrooms, baths |-> baths,
     area_size |-> area_size, latitude |-> PyInt(31), longitude |-> PyInt(74)]

\* np.log1p of the prices of the corpus, to two decimal places
Log1pOf(price) ==
    CASE price = 50000 -> PyFloat(541, 50)
      [] price = 5000000 -> PyFloat(771, 50)
      [] price = 9000000 -> PyFloat(1601, 100)
      [] price = 20000000 -> PyFloat(1681, 100)

\* sum(target) over the rows of a frame that has a target column
RECURSIVE SumOfTargets(_)
SumOfTargets(df) ==
    IF DOMAIN df = {} THEN PyFloat(0, 1)
    ELSE LET r == CHOOSE x \in DOMAIN df : TRUE
         IN RatAdd(Times(r.target, df[r], 1),
                   SumOfTargets([x \in DOMAIN df \ {r} |-> df[x]]))
\* Series.mean()
MeanOfTargets(df) == Quot(SumOfTargets(df), PyInt(RowCount(df)))

\* the category's plain mean, without smoothing
PlainMean(count, mean, smoothing, global_mean) == mean
\* line 62: (counts * means + smoothing * global_mean) / (counts + smoothing)
Smooth(count, mean, smoothing, global_mean) ==
    Quot(RatAdd(Times(mean, count, 1), Times(global_mean, smoothing, 1)),
         PyInt(count + smoothing))
\* lines 51-65: ManualTargetEncoder.fit on the frame of the columns feature
\* (X) and target (y)
ManualTargetEncoderFit(self, df) ==
    [smoothing |-> self.smoothing,
     global_mean |-> MeanOfTargets(df),
     encoding_map |->
        [c \in {r.feature : r \in DOMAIN df} |->
            Smooth(RowCount(Where(df, LAMBDA r : r.feature = c)),
                   MeanOfTargets(Where(df, LAMBDA r : r.feature = c)),
                   self.smoothing, MeanOfTargets(df))]]
\* lines 67-68: X.map(encoding_map).fillna(global_mean), for one value
ManualTargetEncoderTransform(self, x) ==
    IF x \in DOMAIN self.encoding_map THEN self.encoding_map[x] ELSE self.global_mean

\* rooms / area as pandas divides: inf or NaN for no area
RoomsPerArea(rooms, area) ==
    IF area # 0 THEN Fraction(rooms, area)
    ELSE IF rooms = 0 THEN PyNaN ELSE PyInf
\* lines 115-118
RatioInBounds(ratio) ==
    /\ Finite(ratio)
    /\ ratio.n * 20 >= 3 * ratio.d
    /\ ratio.n * 5 <= 9 * ratio.d
\* lines 80-131.  Line 83 puts the column names in lower case, so that
\* line 89 finds no column that starts with 'Unnamed' and drops none.
load_and_preprocess_data(csv) ==
    Assign(
      Where(
        Where(csv, LAMBDA r :
            /\ r.city \in {"Karachi", "Lahore", "Islamabad", "Rawalpindi", "Faisalabad"}
            /\ r.property_type \in {"House", "Flat", "Penthouse", "Upper Portion",
                                    "Lower Portion", "Farm House", "Room"}
            /\ r.purpose = "For Sale"
            /\ RatioInBounds(RoomsPerArea(r.bedrooms + r.baths, r.area_size))),
        LAMBDA r : /\ r.price > 100000
                   /\ r.bedrooms <= 15
                   /\ r.baths <= 15
                   /\ r.area_size > 0),
      LAMBDA r : WithField(r, "log_price", Log1pOf(r.price)))

\* Series.median() of log_price: the mean of the two middle values
MedianLogPrice(df) ==
    Times(RatAdd(Log1pOf(OrderStatistic(df, (RowCount(df) - 1) \div 2)),
                 Log1pOf(OrderStatistic(df, RowCount(df) \div 2))), 1, 2)

\* lines 150-151: the frame that ManualTargetEncoder.fit is given
LocationTargets(df) ==
    Assign(df, LAMBDA r : [feature |-> r.location, target |-> r.log_price])
\* lines 158-166
KaggleLabelEncoders(df) ==
    [col \in {"property_type", "city", "province_name", "purpose"} |->
        FittedClasses(df, col)]
\* lines 137-166, the columns added to one row
EngineeredRow(df, target_encoder, r) ==
    [f \in DOMAIN r \cup {"total_rooms", "room_density", "location_encoded",
                          "city_median_price", "property_type_encoded",
                          "city_encoded", "province_name_encoded",
                          "purpose_encoded"} |->
        CASE f = "total_rooms" -> r.bedrooms + r.baths
          [] f = "room_density" -> RoomsPerArea(r.bedrooms + r.baths, r.area_size)
          [] f = "location_encoded" ->
                ManualTargetEncoderTransform(target_encoder, r.location)
          [] f = "city_median_price" -> MedianLogPrice(CityDf(df, r.city))
          [] f = "property_type_encoded" ->
                IndexOf(FittedClasses(df, "property_type"), r.property_type) - 1
          [] f = "city_encoded" -> IndexOf(FittedClasses(df, "city"), r.city) - 1
          [] f = "province_name_encoded" ->
                IndexOf(FittedClasses(df, "province_name"), r.province_name) - 1
          [] f = "purpose_encoded" -> IndexOf(FittedClasses(df, "purpose"), r.purpose) - 1
          [] OTHER -> r[f]]
\* lines 133-168
feature_engineering(df) ==
    [df |-> Assign(df, LAMBDA r :
                EngineeredRow(df, ManualTargetEncoderFit([smoothing |-> 10],
                                                         LocationTargets(df)), r)),
     label_encoders |-> KaggleLabelEncoders(df),
     target_encoder |-> ManualTargetEncoderFit([smoothing |-> 10], LocationTargets(df)),
     city_median |-> [c \in {r.city : r \in DOMAIN df} |-> MedianLogPrice(CityDf(df, c))]]

\* lines 172-176
kaggle_feature_cols ==
    <<"property_type_encoded", "location_encoded", "city_encoded",
      "province_name_encoded", "latitude", "longitude", "baths", "bedrooms",
      "area_size", "total_rooms", "room_density", "city_median_price">>
\* lines 179-180: the rows that have a value in every feature column, each
\* as its features X and its target y.  The columns of floats are those that
\* can hold NaN.
prepare_model_data(df) ==
    Assign(Where(df, LAMBDA r :
                \A c \in {"latitude", "longitude", "location_encoded", "room_density",
                          "city_median_price"} : r[c].t # "nan"),
           LAMBDA r : [X |-> [c \in Range(kaggle_feature_cols) |-> r[c]],
                       y |-> r.log_price])

\* lines 190-202: the names of the registry in the order of the dict
ModelRegistry(xgb, lgb) ==
    <<"Linear Regression", "Decision Tree", "Random Forest", "Gradient Boosting",
      "Deep Learning">>
    \o (IF xgb THEN <<"XGBoost">> ELSE <<>>)
    \o (IF lgb THEN <<"LightGBM">> ELSE <<>>)

\* line 234: the number of folds
KaggleSplits == 5
\* KFold.split: the validation part of fold fold_idx has n // 5 rows, one
\* more in the first n % 5 folds; which rows is up to the shuffle
FoldSize(n, fold_idx) ==
    n \div KaggleSplits + (IF fold_idx <= n % KaggleSplits THEN 1 ELSE 0)

\* the rows of the input file, each with the filter it is there for
KaggleOddRows ==
    { KaggleRow("House", "Cantt", "Multan", "For Sale", 3, 3, 5, 9000000),
      KaggleRow("Plot", "DHA Defence", "Karachi", "For Sale", 3, 3, 5, 9000000),
      KaggleRow("House", "DHA Defence", "Karachi", "For Rent", 3, 3, 5, 9000000),
      KaggleRow("House", "DHA Defence", "Karachi", "For Sale", 1, 0, 10, 9000000),
      KaggleRow("House", "Gulberg", "Lahore", "For Sale", 5, 5, 5, 20000000),
      KaggleRow("House", "Gulberg", "Lahore", "For Sale", 2, 1, 20, 20000000),
      KaggleRow("Flat", "F-7", "Islamabad", "For Sale", 5, 4, 5, 5000000),
      KaggleRow("House", "DHA Defence", "Karachi", "For Sale", 3, 3, 0, 9000000),
      KaggleRow("House", "DHA Defence", "Karachi", "For Sale", 0, 0, 0, 9000000),
      KaggleRow("House", "DHA Defence", "Karachi", "For Sale", 3, 3, 5, 50000),
      KaggleRow("House", "Gulberg", "Lahore", "For Sale", 16, 4, 20, 20000000),
      [KaggleRow("House", "Clifton", "Karachi", "For Sale", 3, 3, 5, 5000000)
         EXCEPT !.latitude = PyNaN] }
\* the input files, and no file
KaggleFiles ==
    { [exists |-> TRUE,
       rows |->
         [r \in {KaggleRow("House", "DHA Defence", "Karachi", "For Sale", 3, 3, 5, 9000000),
                 KaggleRow("House", "Gulberg", "Lahore", "For Sale", 4, 4, 10, 20000000)} |->
            IF r.city = "Karachi" THEN k ELSE l]
         (+) SetToBag(odd)] :
        k \in {1, 6}, l \in {2, 5},
        odd \in {S \in SUBSET KaggleOddRows : Cardinality(S) <= MaxOddRows} }
    \cup {[exists |-> FALSE, rows |-> EmptyBag]}

\* np.expm1(x), model.predict(X): kept as what they are applied to
Expm1(x) == [expm1 |-> x]
Predict(model, X) == [model |-> model, X |-> X]
\* rmse, mae, r2 and mape of the pairs (true value, predicted value) of a
\* set of rows: each is kept as the pairs it is computed from
MetricsOf(pairs) == [rmse |-> pairs, mae |-> pairs, r2 |-> pairs, mape |-> pairs]

\* lines 266-285 of kaggle_train.py: the scores of a fold model on the
\* validation part of its fold
KaggleFoldScore(fold_idx, model_fold, val) ==
    [fold |-> fold_idx] @@
    MetricsOf({<<Expm1(r.y), Expm1(Predict(model_fold, r.X))>> : r \in DOMAIN val})

InitKaggle ==
    /\ program = "kaggle"
    /\ pc = "start"
    /\ \E csv \in KaggleFiles : files = [csv |-> csv]
    /\ payload = [isDict |-> FALSE, items |-> <<>>]
    /\ validation = NoValidation
    /\ \E xgb \in BOOLEAN, lgb \in BOOLEAN : predictor = [xgb |-> xgb, lgb |-> lgb]
    /\ featureDf = NoFeatureDf
    /\ prediction = PyNone
    /\ nCompose = 0
    /\ nInfer = 0
    /\ outcome = ""

\* line 450 and lines 74-131: without the file the function reports it and
\* returns the tuple (None, None), which the run keeps as the report
KaggleLoad ==
    /\ program = "kaggle"
    /\ pc = "start"
    /\ pc' = "load_and_preprocess_data"
    /\ IF files.csv.exists
       THEN /\ featureDf' = load_and_preprocess_data(files.csv.rows)
            /\ UNCHANGED outcome
       ELSE /\ featureDf' = EmptyBag
            /\ outcome' = "not found"
    /\ UNCHANGED <<program, payload, validation, files, predictor, prediction,
                   nCompose, nInfer>>

\* lines 451-454: a tuple is not None, and df['bedrooms'] of a tuple raises
KaggleFeatureEngineering ==
    /\ program = "kaggle"
    /\ pc = "load_and_preprocess_data"
    /\ IF outcome = "not found"
       THEN /\ pc' = "raised"
            /\ outcome' = "TypeError"
            /\ UNCHANGED <<featureDf, predictor>>
       ELSE \E r \in {feature_engineering(featureDf)} :
            /\ pc' = "feature_engineering"
            /\ featureDf' = r.df
            /\ predictor' = [xgb |-> predictor.xgb, lgb |-> predictor.lgb,
                             encoders |-> r.label_encoders,
                             target_encoder |-> r.target_encoder,
                             city_median |-> r.city_median]
            /\ UNCHANGED outcome
    /\ UNCHANGED <<program, payload, validation, files, prediction, nCompose, nInfer>>

\* line 455
KagglePrepareModelData ==
    /\ program = "kaggle"
    /\ pc = "feature_engineering"
    /\ pc' = "prepare_model_data"
    /\ featureDf' = prepare_model_data(featureDf)
    /\ UNCHANGED <<program, payload, validation, files, predictor, prediction,
                   nCompose, nInfer, outcome>>

\* lines 185-227: the scaled features, the registry of unfitted models and
\* the shared artifacts in trained_models
KaggleScaleAndSave ==
    /\ program = "kaggle"
    /\ pc = "prepare_model_data"
    /\ pc' = "train_and_evaluate"
    /\ featureDf' = Assign(featureDf, LAMBDA r : [X |-> [scaled |-> r.X], y |-> r.y])
    /\ files' = [csv |-> files.csv,
                 encoders |-> predictor.encoders,
                 scaler |-> [fitted_on |-> Assign(featureDf, LAMBDA r : r.X)],
                 target_encoder |-> predictor.target_encoder.encoding_map,
                 city_median |-> predictor.city_median,
                 features |-> kaggle_feature_cols]
    /\ prediction' = [name |-> 1, fold_idx |-> 1, fold_scores |-> <<>>,
                      models |-> [i \in DOMAIN ModelRegistry(predictor.xgb, predictor.lgb)
                                    |-> [fitted_on |-> PyNone]],
                      model_fold |-> PyNone]
    /\ UNCHANGED <<program, payload, validation, predictor, nCompose, nInfer, outcome>>

\* lines 239-285: one pass of the loop over the folds.  KFold.split raises
\* for fewer rows than folds; line 260 reads intercept_ of the model of the
\* registry, which has not been fitted: only its clone has
KaggleFold ==
    /\ program = "kaggle"
    /\ pc = "train_and_evaluate"
    /\ prediction.fold_idx <= KaggleSplits
    /\ IF RowCount(featureDf) < KaggleSplits
       THEN /\ pc' = "raised"
            /\ outcome' = "ValueError"
            /\ UNCHANGED prediction
       ELSE \E val \in {s \in SubBag(featureDf) :
                          RowCount(s) = FoldSize(RowCount(featureDf), prediction.fold_idx)} :
            \E model_fold \in {[fitted_on |-> featureDf (-) val]} :
               IF /\ ModelRegistry(predictor.xgb, predictor.lgb)[prediction.name]
                        = "Linear Regression"
                  /\ prediction.models[prediction.name].fitted_on = PyNone
               THEN /\ pc' = "raised"
                    /\ outcome' = "AttributeError"
                    /\ prediction' = [prediction EXCEPT !.model_fold = model_fold]
               ELSE /\ prediction' =
                         [prediction EXCEPT
                            !.model_fold = model_fold,
                            !.fold_idx = @ + 1,
                            !.fold_scores =
                                Append(@, KaggleFoldScore(prediction.fold_idx,
                                                          model_fold, val))]
                    /\ UNCHANGED <<pc, outcome>>
    /\ UNCHANGED <<program, payload, validation, files, predictor, featureDf,
                   nCompose, nInfer>>

(***************************************************************************)
(* Program "features": the feature engineering of the training pipelines   *)
(* that have a price-derived column: create_encoders_and_features of       *)
(* scripts/kaggle_train_backup.py, the module-level code of                *)
(* ml_training/train_decision_tree.py and preprocess_data of               *)
(* PropertyValuePredictor.  A frame is a bag of rows; the numbers of a row *)
(* are Python values.                                                      *)
(***************************************************************************)
TrainRow(property_type, location, city, price, area_size, bedrooms, baths, year) ==
    [property_type |-> property_type, location |-> location, city |-> city,
     province_name |-> IF city = "Karachi" THEN "Sindh" ELSE "Punjab",
     purpose |-> "For Sale", price |-> PyInt(price), area_size |-> PyInt(area_size),
     area_category |-> IF area_size <= 5 THEN "0-5 Marla" ELSE "5-10 Marla",
     bedrooms |-> PyInt(bedrooms), baths |-> PyInt(baths), year |-> year,
     latitude |-> PyInt(31), longitude |-> PyInt(74)]

\* x / y between two columns of finite numbers: inf or NaN for y = 0
SeriesDiv(x, y) ==
    IF y.n # 0 THEN Quot(x, y) ELSE IF x.n = 0 THEN PyNaN ELSE PyInf
\* Series.median() of a column of finite numbers
ColumnMedian(df, col) ==
    Quantile(Assign(df, LAMBDA r : [price |-> r[col].n]), 1, 2)
\* df.groupby(by)[col].mean() for one group
GroupMean(df, by, key, col) ==
    MeanOfTargets(Assign(Where(df, LAMBDA r : r[by] = key),
                         LAMBDA r : [feature |-> r[by], target |-> r[col]]))
\* a code that create_map gave a value: its rank among the values of the
\* column in the order of their first rows
FirstSeenCode(col, value) == [create_map |-> col, val |-> value]
\* the fields of a record that are in a list of columns
Select(r, cols) == [c \in Range(cols) |-> r[c]]

\* kaggle_train_backup.py lines 82-105: the columns of one row of df
BackupRow(df, r) ==
    [property_type_encoded |-> FirstSeenCode("property_type", r.property_type),
     location_encoded |-> FirstSeenCode("location", r.location),
     city_encoded |-> FirstSeenCode("city", r.city),
     province_encoded |-> FirstSeenCode("province_name", r.province_name),
     purpose_encoded |-> FirstSeenCode("purpose", r.purpose),
     area_category_encoded |-> FirstSeenCode("area_category", r.area_category),
     latitude |-> r.latitude,
     longitude |-> r.longitude,
     baths |-> r.baths,
     bedrooms |-> r.bedrooms,
     area_size |-> r.area_size,
     price_per_unit |-> SeriesDiv(r.price, r.area_size),
     location_premium |->
        GroupMean(Assign(df, LAMBDA x :
                     WithField(x, "price_per_unit", SeriesDiv(x.price, x.area_size))),
                  "location", r.location, "price_per_unit"),
     property_age_years |->
        IF r.year.t = "nan" THEN PyInt(IF NowYear > 2020 THEN NowYear - 2020 ELSE 0)
        ELSE PyInt(IF NowYear > r.year.n THEN NowYear - r.year.n ELSE 0),
     bath_bedroom_ratio |-> kaggle_bath_bedroom_ratio(r.baths, r.bedrooms),
     area_size_normalized |->
        IF Above(r.area_size, 50) THEN PyFloat(1, 1) ELSE Quot(r.area_size, PyInt(50)),
     price |-> r.price]
\* kaggle_train_backup.py lines 61-135: the rows of X, each with its y
create_encoders_and_features(df) ==
    Assign(df, LAMBDA r :
        [X |-> [Select(BackupRow(df, r), feature_cols) EXCEPT !.price_per_unit = PyInt(0)],
         y |-> r.price])

\* train_decision_tree.py lines 76-80
decision_tree_feature_columns ==
    <<"location_encoded", "property_type_encoded", "city_encoded",
      "province_name_encoded", "area_size", "baths", "bedrooms",
      "price_per_unit", "property_age_years", "bath_bedroom_ratio">>
\* train_decision_tree.py line 66: zeros become the median of the column
FilledAreaSize(data, r) ==
    IF r.area_size.n = 0 THEN ColumnMedian(data, "area_size") ELSE r.area_size
\* train_decision_tree.py lines 57-74: the columns of one row of data
DecisionTreeRow(data, r) ==
    [location_encoded |-> IndexOf(FittedClasses(data, "location"), r.location) - 1,
     property_type_encoded |->
        IndexOf(FittedClasses(data, "property_type"), r.property_type) - 1,
     city_encoded |-> IndexOf(FittedClasses(data, "city"), r.city) - 1,
     province_name_encoded |->
        IndexOf(FittedClasses(data, "province_name"), r.province_name) - 1,
     purpose_encoded |-> IndexOf(FittedClasses(data, "purpose"), r.purpose) - 1,
     area_size |-> FilledAreaSize(data, r),
     baths |-> r.baths,
     bedrooms |-> IF r.bedrooms.n = 0 THEN PyInt(1) ELSE r.bedrooms,
     price_per_unit |-> SeriesDiv(r.price, FilledAreaSize(data, r)),
     property_age_years |-> IF r.year.t = "nan" THEN PyInt(5) ELSE PyInt(2025 - r.year.n),
     bath_bedroom_ratio |-> decision_tree_bath_bedroom_ratio(r.baths, r.bedrooms)]
\* train_decision_tree.py lines 57-87: the rows of X, each with its y.  The
\* frames of the model have no NaN in a feature column, so the fillna of
\* line 87 changes nothing.
decision_tree_features(data) ==
    Assign(data, LAMBDA r :
        [X |-> Select(DecisionTreeRow(data, r), decision_tree_feature_columns),
         y |-> r.price])

\* propertyValuePredictor.py lines 80 and 101-105: the labels of the rows
\* of df that sale_df keeps.  df is the frame of read_csv, a sequence of
\* rows; the label of a row is its position, counted from 1 here and from
\* 0 in pandas, and no filter renumbers the rows
CleanSales(df) ==
    {i \in DOMAIN df : /\ df[i].purpose = "For Sale"
                       /\ df[i].price.n > 0
                       /\ df[i].area_size.n > 0
                       /\ df[i].bedrooms.n > 0}
\* the label of the row at position j of sale_df
LabelAt(df, j) ==
    CHOOSE i \in CleanSales(df) : Cardinality({x \in CleanSales(df) : x <= i}) = j
\* the rows of sale_df
SaleRows(df) == SetToBag({df[i] : i \in CleanSales(df)})
\* a column of features_df that is assigned a Series of sale_df: pandas
\* aligns it by label, so the row labelled j of features_df gets the value
\* of the row labelled j of df if sale_df kept that row, and NaN if not
Aligned(df, j, value) == IF j \in CleanSales(df) THEN value ELSE PyNaN
\* propertyValuePredictor.py lines 113-154: the row of features_df at
\* position j.  The encoded columns are arrays and go by position: they are
\* those of the row of sale_df at position j
ValueFeaturesRow(df, j) ==
    [property_type_encoded |->
        IndexOf(FittedClasses(SaleRows(df), "property_type"),
                df[LabelAt(df, j)].property_type) - 1,
     location_encoded |->
        IndexOf(FittedClasses(SaleRows(df), "location"), df[LabelAt(df, j)].location) - 1,
     city_encoded |->
        IndexOf(FittedClasses(SaleRows(df), "city"), df[LabelAt(df, j)].city) - 1,
     province_encoded |->
        IndexOf(FittedClasses(SaleRows(df), "province_name"),
                df[LabelAt(df, j)].province_name) - 1,
     bedrooms |-> Aligned(df, j, df[j].bedrooms),
     bathrooms |-> Aligned(df, j, df[j].baths),
     area_marla |-> Aligned(df, j, df[j].area_size),
     year |-> Aligned(df, j, df[j].year),
     latitude |-> Aligned(df, j, df[j].latitude),
     longitude |-> Aligned(df, j, df[j].longitude),
     price_per_marla |-> Aligned(df, j, Quot(df[j].price, df[j].area_size)),
     bedroom_density |-> Aligned(df, j, Quot(df[j].area_size, df[j].bedrooms)),
     bathroom_ratio |-> Aligned(df, j, Quot(df[j].baths, df[j].bedrooms)),
     age |-> Aligned(df, j, PyInt(NowYear - df[j].year.n))]
\* propertyValuePredictor.py lines 83-84 and 100-162: features_df with the
\* target, or the ValueError of line 110.  The target is the price column
\* of sale_df, which train_models pairs with features_df by position
value_preprocess_data(df) ==
    IF CleanSales(df) = {} THEN Conv("ValueError", EmptyBag)
    ELSE Conv("", BagOfAll(LAMBDA j : [X |-> ValueFeaturesRow(df, j),
                                       y |-> df[LabelAt(df, j)].price],
                           SetToBag(1..Cardinality(CleanSales(df)))))

\* the rows of the frames: the rows of load_and_clean_data have an area
TrainBase == TrainRow("House", "DHA Defence", "Karachi", 9000000, 5, 3, 3, PyInt(2019))
TrainOdd(pipeline) ==
    { TrainRow("Flat", "Gulberg", "Lahore", 20000000, 10, 4, 4, PyInt(2021)),
      TrainRow("House", "DHA Defence", "Karachi", 12000000, 8, 0, 2, PyInt(2019)) }
    \cup IF pipeline = "kaggle_train_backup" THEN {}
         ELSE {TrainRow("House", "Clifton", "Karachi", 6000000, 0, 2, 2, PyInt(2018))}
MaxFileRows == 3
\* the frames of the three pipelines: bags of rows, and for preprocess_data
\* of PropertyValuePredictor, where the order of the file matters, the
\* sequences of up to MaxFileRows rows
TrainFrames(pipeline) ==
    IF pipeline = "propertyValuePredictor"
    THEN UNION {[1..n -> {TrainBase} \cup TrainOdd(pipeline)] : n \in 1..MaxFileRows}
    ELSE { [r \in {TrainBase} |-> a] (+) SetToBag(odd) :
             a \in {1, 2}, odd \in SUBSET TrainOdd(pipeline) }

InitFeatures ==
    /\ program = "features"
    /\ pc = "start"
    /\ \E pipeline \in {"kaggle_train_backup", "train_decision_tree",
                        "propertyValuePredictor"} :
          /\ predictor = [pipeline |-> pipeline]
          /\ \E df \in TrainFrames(pipeline) : payload = [isDict |-> FALSE, items |-> df]
    /\ files = <<>>
    /\ validation = NoValidation
    /\ featureDf = NoFeatureDf
    /\ prediction = PyNone
    /\ nCompose = 0
    /\ nInfer = 0
    /\ outcome = ""

FeaturesDone(X, exc) ==
    /\ pc' = "engineered"
    /\ featureDf' = X
    /\ outcome' = exc
    /\ UNCHANGED <<program, payload, validation, files, predictor, prediction,
                   nCompose, nInfer>>
FeaturesBackup ==
    /\ program = "features" /\ pc = "start"
    /\ predictor.pipeline = "kaggle_train_backup"
    /\ FeaturesDone(create_encoders_and_features(payload.items), "")
FeaturesDecisionTree ==
    /\ program = "features" /\ pc = "start"
    /\ predictor.pipeline = "train_decision_tree"
    /\ FeaturesDone(decision_tree_features(payload.items), "")
FeaturesValuePredictor ==
    /\ program = "features" /\ pc = "start"
    /\ predictor.pipeline = "propertyValuePredictor"
    /\ FeaturesDone(value_preprocess_data(payload.items).val,
                    value_preprocess_data(payload.items).exc)

\* ------------------------------------------------------------------------
\* Program "encoder": ManualTargetEncoder(smoothing).fit(X, y) of
\* src/scripts/kaggle_train.py, lines 41-68, on a frame of the columns
\* feature and target.
\* ------------------------------------------------------------------------
EncoderTargets == {10, 20, 100}
EncoderRow(feature, target) == [feature |-> feature, target |-> PyFloat(target, 1)]
\* the frames: up to two rows (A, 10) and up to one of every other
\* (category, target) pair, at least one row in all
EncoderFrames ==
    {df \in {[r \in s |-> IF r = EncoderRow("A", 10) THEN k ELSE 1] :
                s \in SUBSET {EncoderRow(f, t) : f \in {"A", "B"},
                                                 t \in EncoderTargets},
                k \in 1..2} :
        DOMAIN df # {}}
\* line 46: smoothing=10 by default; 0 and 1 as arguments
Smoothings == {0, 1, 10}

InitEncoder ==
    /\ program = "encoder"
    /\ pc = "constructed"
    /\ \E smoothing \in Smoothings :
          \* lines 46-49: __init__
          predictor = [smoothing |-> smoothing, global_mean |-> PyInt(0),
                       encoding_map |-> <<>>]
    /\ \E df \in EncoderFrames : payload = [isDict |-> FALSE, items |-> df]
    /\ files = <<>>
    /\ validation = NoValidation
    /\ featureDf = NoFeatureDf
    /\ prediction = PyNone
    /\ nCompose = 0
    /\ nInfer = 0
    /\ outcome = ""

\* lines 51-65: fit(X, y)
EncoderFit ==
    /\ program = "encoder" /\ pc = "constructed"
    /\ pc' = "fitted"
    /\ predictor' = ManualTargetEncoderFit(predictor, payload.items)
    /\ UNCHANGED <<program, payload, validation, files, featureDf, prediction,
                   nCompose, nInfer, outcome>>

(***************************************************************************)
(* Program "trainer": XGBoostTrainer(dataFile).trainPipeline() of          *)
(* n/xgboost_train.py and LightGBMTrainer(dataFile).trainPipeline() of     *)
(* n/lightgbm_train.py.  predictor is the trainer object, featureDf the    *)
(* X and y of trainPipeline, prediction the local variables of             *)
(* performKFoldCV.  A frame is a set of distinct rows.  A fitted booster   *)
(* is kept as the data it was made from: the rows it was fitted on, the    *)
(* evaluation sets it was given and the sets that stopped its boosting.    *)
(***************************************************************************)
\* the rows of cleaned_real_estate_data.csv
TrainerRows(n) ==
    {[feature |-> i, price |-> 100 * i, logPrice |-> Log1p(100 * i)] : i \in 1..n}
TrainerRowCounts == {4, 5, 6}
\* a frame or a series held by an attribute that starts as None
Held(rows) == [rows |-> rows]

\* an order of the calls in which the final model is trained before the
\* folds are run
FinalBeforeKFold ==
    <<"loadData", "prepareFeatures", "trainTestSplit", "trainFinalModel",
      "performKFoldCV", "evaluateModel", "plotKFoldResults",
      "plotTrainingCurves", "plotPredictions", "plotFeatureImportance",
      "saveModel">>
\* xgboost_train.py lines 383-393, lightgbm_train.py lines 391-401: the
\* calls of trainPipeline in their order
trainPipeline ==
    <<"loadData", "prepareFeatures", "performKFoldCV", "trainTestSplit",
      "trainFinalModel", "evaluateModel", "plotKFoldResults",
      "plotTrainingCurves", "plotPredictions", "plotFeatureImportance",
      "saveModel">>
\* the call that follows the one that returned last
NextCall(order, returned) ==
    IF returned = "start" THEN order[1]
    ELSE IF returned \in Range(order) /\ IndexOf(order, returned) < Len(order)
    THEN order[IndexOf(order, returned) + 1]
    ELSE "none"

\* line 387 of xgboost_train.py, line 395 of lightgbm_train.py
nSplits == 5
\* train_test_split with testSize=0.2: ceil(0.2 * n) rows are test rows
TestRows(n) == (n + 4) \div 5

\* xgb.train(params, dtrain, num_boost_round, evals, early_stopping_rounds):
\* the last entry of evals stops the boosting and fixes best_iteration
xgb_train(dtrain, num_boost_round, evals) ==
    [fitted_on |-> dtrain, num_boost_round |-> num_boost_round, evals |-> evals,
     best_iteration |-> [early_stopping_on |-> {evals[Len(evals)]}]]
\* lgb.train(params, trainData, num_boost_round, valid_sets,
\* callbacks=[lgb.early_stopping(50)]): every valid set but the training
\* data itself stops the boosting and fixes best_iteration
lgb_train(trainData, num_boost_round, valid_sets) ==
    [fitted_on |-> trainData, num_boost_round |-> num_boost_round,
     evals |-> valid_sets,
     best_iteration |-> [early_stopping_on |-> Range(valid_sets) \ {trainData}]]
LibraryTrain(library, train, num_boost_round, evals) ==
    IF library = "xgboost" THEN xgb_train(train, num_boost_round, evals)
    ELSE lgb_train(train, num_boost_round, evals)

\* xgboost_train.py lines 112-125, lightgbm_train.py lines 116-129: the
\* scores of a fold model on the validation rows of its fold
FoldResult(foldIdx, model, val) ==
    [fold |-> foldIdx] @@
    MetricsOf({<<r.y, Predict(model, r.X)>> : r \in val})
\* calculateMetrics(yTrue, yPred, datasetName)
calculateMetrics(rows, model) ==
    MetricsOf({<<Expm1(r.y), Expm1(Predict(model, r.X))>> : r \in rows})

InitTrainer ==
    /\ program = "trainer"
    /\ pc = "start"
    /\ \E exists \in BOOLEAN, n \in TrainerRowCounts :
          files = [dataFile |-> [exists |-> exists,
                                 rows |-> IF exists THEN TrainerRows(n) ELSE {}]]
    /\ \E library \in {"xgboost", "lightgbm"} :
          \* __init__
          predictor = [library |-> library, df |-> PyNone, XTrain |-> PyNone,
                       XTest |-> PyNone, model |-> PyNone, featureNames |-> PyNone,
                       kfoldResults |-> <<>>, trainMetrics |-> PyNone,
                       testMetrics |-> PyNone]
    /\ payload = [isDict |-> FALSE, items |-> <<>>]
    /\ validation = NoValidation
    /\ featureDf = NoFeatureDf
    /\ prediction = PyNone
    /\ nCompose = 0
    /\ nInfer = 0
    /\ outcome = ""

TrainerCalls(name) == program = "trainer" /\ NextCall(trainPipeline, pc) = name

\* loadData: pd.read_csv raises for a file that is not there
TrainerLoadData ==
    /\ TrainerCalls("loadData")
    /\ IF files.dataFile.exists
       THEN /\ pc' = "loadData"
            /\ predictor' = [predictor EXCEPT !.df = Held(files.dataFile.rows)]
            /\ UNCHANGED outcome
       ELSE /\ pc' = "raised"
            /\ outcome' = "FileNotFoundError"
            /\ UNCHANGED predictor
    /\ UNCHANGED <<program, payload, validation, files, featureDf, prediction,
                   nCompose, nInfer>>

\* prepareFeatures: X is df without price and logPrice, y is logPrice
TrainerPrepareFeatures ==
    /\ TrainerCalls("prepareFeatures")
    /\ pc' = "prepareFeatures"
    /\ featureDf' = {[X |-> [feature |-> r.feature], y |-> r.logPrice] :
                        r \in predictor.df.rows}
    /\ predictor' = [predictor EXCEPT !.featureNames = <<"feature">>]
    /\ UNCHANGED <<program, payload, validation, files, prediction, nCompose,
                   nInfer, outcome>>

\* performKFoldCV up to the loop: KFold.split raises for fewer rows than
\* folds
TrainerKFoldStart ==
    /\ TrainerCalls("performKFoldCV")
    /\ IF Cardinality(featureDf) < nSplits
       THEN /\ pc' = "raised"
            /\ outcome' = "ValueError"
            /\ UNCHANGED prediction
       ELSE /\ pc' = "in performKFoldCV"
            /\ prediction' = [foldIdx |-> 1, foldResults |-> <<>>, model |-> PyNone,
                              rest |-> featureDf]
            /\ UNCHANGED outcome
    /\ UNCHANGED <<program, payload, validation, files, predictor, featureDf,
                   nCompose, nInfer>>

\* one pass of the loop of performKFoldCV: the validation rows of the fold
\* are rows no earlier fold validated on, which ones is up to the shuffle
TrainerFold ==
    /\ program = "trainer" /\ pc = "in performKFoldCV"
    /\ prediction.foldIdx <= nSplits
    /\ \E val \in {s \in SUBSET prediction.rest :
                     Cardinality(s) = FoldSize(Cardinality(featureDf),
                                               prediction.foldIdx)} :
       \E model \in {LibraryTrain(predictor.library, featureDf \ val, 500, <<val>>)} :
          prediction' = [foldIdx |-> prediction.foldIdx + 1,
                         foldResults |->
                             Append(prediction.foldResults,
                                    FoldResult(prediction.foldIdx, model, val)),
                         model |-> model,
                         rest |-> prediction.rest \ val]
    /\ UNCHANGED <<program, pc, payload, validation, files, predictor, featureDf,
                   nCompose, nInfer, outcome>>

\* the end of performKFoldCV: self.kfoldResults = pd.DataFrame(foldResults)
TrainerKFoldReturn ==
    /\ program = "trainer" /\ pc = "in performKFoldCV"
    /\ prediction.foldIdx > nSplits
    /\ pc' = "performKFoldCV"
    /\ predictor' = [predictor EXCEPT !.kfoldResults = prediction.foldResults]
    /\ UNCHANGED <<program, payload, validation, files, featureDf, prediction,
                   nCompose, nInfer, outcome>>

\* trainTestSplit(X, y, testSize=0.2): which rows are test rows is up to
\* the shuffle
TrainerTrainTestSplit ==
    /\ TrainerCalls("trainTestSplit")
    /\ pc' = "trainTestSplit"
    /\ \E test \in {s \in SUBSET featureDf :
                      Cardinality(s) = TestRows(Cardinality(featureDf))} :
          predictor' = [predictor EXCEPT !.XTrain = Held(featureDf \ test),
                                         !.XTest = Held(test)]
    /\ UNCHANGED <<program, payload, validation, files, featureDf, prediction,
                   nCompose, nInfer, outcome>>

\* trainFinalModel
TrainerTrainFinalModel ==
    /\ TrainerCalls("trainFinalModel")
    /\ pc' = "trainFinalModel"
    /\ predictor' =
          [predictor EXCEPT !.model =
              LibraryTrain(predictor.library, predictor.XTrain.rows, 1000,
                           <<predictor.XTrain.rows, predictor.XTest.rows>>)]
    /\ UNCHANGED <<program, payload, validation, files, featureDf, prediction,
                   nCompose, nInfer, outcome>>

\* evaluateModel
TrainerEvaluateModel ==
    /\ TrainerCalls("evaluateModel")
    /\ pc' = "evaluateModel"
    /\ predictor' =
          [predictor EXCEPT
              !.trainMetrics = calculateMetrics(predictor.XTrain.rows, predictor.model),
              !.testMetrics = calculateMetrics(predictor.XTest.rows, predictor.model)]
    /\ UNCHANGED <<program, payload, validation, files, featureDf, prediction,
                   nCompose, nInfer, outcome>>

\* plotKFoldResults, plotTrainingCurves, plotPredictions and
\* plotFeatureImportance: each saves one figure
TrainerPlot ==
    /\ program = "trainer"
    /\ NextCall(trainPipeline, pc) \in
          {"plotKFoldResults", "plotTrainingCurves", "plotPredictions",
           "plotFeatureImportance"}
    /\ pc' = NextCall(trainPipeline, pc)
    /\ files' = files @@ (NextCall(trainPipeline, pc) :> "png")
    /\ UNCHANGED <<program, payload, validation, predictor, featureDf, prediction,
                   nCompose, nInfer, outcome>>

\* saveModel: joblib.dump of self.model and of self.featureNames
TrainerSaveModel ==
    /\ TrainerCalls("saveModel")
    /\ pc' = "saveModel"
    /\ files' = files @@ [model_pkl |-> predictor.model,
                          features_pkl |-> predictor.featureNames]
    /\ UNCHANGED <<program, payload, validation, predictor, featureDf, prediction,
                   nCompose, nInfer, outcome>>

vars == <<program, pc, payload, validation, files, predictor, featureDf, prediction,
          nCompose, nInfer, outcome>>

Init == InitValidate \/ InitMain \/ InitServer \/ InitRoi \/ InitLoad
        \/ InitGrade \/ InitCalc \/ InitIrr
        \/ InitPrep \/ InitKaggle \/ InitFeatures \/ InitEncoder
        \/ InitTrainer
Next ==
    \/ ValidateCall
    \/ MainConstruct
    \/ MainGetManualInput
    \/ MainBadManualInput
    \/ MainValidate
    \/ MainPrepareFeatures
    \/ MainPredictLogPrice
    \/ MainRespond
    \/ ServerLoadModel
    \/ ServerLoadEncoders
    \/ ServerEncode
    \/ ServerPredict
    \/ RoiStartup
    \/ RoiAnalyze
    \/ RoiTrain
    \/ LoadModelCall
    \/ GradeCall
    \/ CalcCall
    \/ IrrIterate
    \/ PrepLoadData
    \/ PrepDropUnnecessaryColumns
    \/ PrepFilterCities
    \/ PrepFilterPropertyTypes
    \/ PrepValidateRoomAreaRatios
    \/ PrepHandleOutliers
    \/ PrepGroupRareLocations
    \/ PrepBalanceDataset
    \/ PrepCreateEngineeredFeatures
    \/ PrepApplyLogTransform
    \/ PrepEncodeCategoricalVariables
    \/ PrepSaveCleanedData
    \/ KaggleLoad
    \/ KaggleFeatureEngineering
    \/ KagglePrepareModelData
    \/ KaggleScaleAndSave
    \/ KaggleFold
    \/ FeaturesBackup
    \/ FeaturesDecisionTree
    \/ FeaturesValuePredictor
    \/ EncoderFit
    \/ TrainerLoadData
    \/ TrainerPrepareFeatures
    \/ TrainerKFoldStart
    \/ TrainerFold
    \/ TrainerKFoldReturn
    \/ TrainerTrainTestSplit
    \/ TrainerTrainFinalModel
    \/ TrainerEvaluateModel
    \/ TrainerPlot
    \/ TrainerSaveModel
Spec == Init /\ [][Next]_vars

(***************************************************************************)
(* Properties                                                              *)
(***************************************************************************)
ServerComposed == program = "server" /\ nCompose > 0
RoiServed == program = "roi" /\ pc = "served"
ValidateReturned == program = "validate" /\ pc = "returned"

\* the trained predictors of the ROI service that have the given column
TrainedWith(col) ==
    { p \in {predictor.rental_predictor, predictor.value_predictor} :
        p.is_trained /\ col \in Range(p.feature_columns) }

PurchasePrices == {PyFloat(5000000, 1), PyFloat(6000000, 1)}

\* C1: every price-derived feature of an inference-time feature vector is
\* held at its placeholder whatever the request: the vector of
\* encode_features has 0 at the position of price_per_unit, and in the ROI
\* predictors the feature price_per_marla of the request served is the one
\* of every request that differs from it in purchase_price only.
C1_PriceFeaturesHeldAtPlaceholder ==
    /\ ServerComposed => featureDf[12] = PyInt(0)
    /\ RoiServed =>
          \A p \in TrainedWith("price_per_marla") : \A price \in PurchasePrices :
             FeatureOf(p, "price_per_marla", payload.items)
               = FeatureOf(p, "price_per_marla",
                           [payload.items EXCEPT !.purchase_price = price])

\* C2: the inference-time feature vector has the length and the order of
\* the feature list fixed at training time: the featureDf of prepareFeatures
\* has exactly the columns of featureNames, in that order, a column that
\* prepareFeatures did not compute holding 0; the vector of encode_features
\* has the 16 positions of feature_cols, position by position the same
\* feature, the raw columns holding the request's values.
C2_FeatureOrderAsTrained ==
    /\ program = "main" /\ nCompose > 0 =>
          /\ ColumnNames(featureDf) = predictor.featureNames
          /\ \A i \in DOMAIN featureDf :
                featureDf[i].name \notin
                    Range(ColumnNames(FeaturesDict(predictor, validation.cleanedPayload,
                                                   PyInt(0), PyInt(0), PyInt(0))))
                => featureDf[i].value = PyInt(0)
    /\ ServerComposed =>
          /\ Len(featureDf) = Len(feature_cols)
          /\ Len(featureDf) = 16
          /\ \A i \in DOMAIN featureDf :
                /\ TrainingColumn(EncodedFeatureNames[i]) = feature_cols[i]
                /\ EncodedFeatureNames[i] \in RequestFields
                   => featureDf[i] = payload.items[EncodedFeatureNames[i]]

\* a featureDf has been composed from a feature list that names a column
\* prepareFeatures does not compute, in an order that is not the order of
\* the features dict
C2_Witness ==
    /\ program = "main"
    /\ nCompose > 0
    /\ "latitude" \in Range(predictor.featureNames)
    /\ featureDf[1] = Column("latitude", PyInt(0))

\* the payload of main passed validation and the room-to-area check
RatioAccepted ==
    LET pl == validation.cleanedPayload
        r == validateRoomAreaRatio(pl.bedrooms, pl.bathrooms, pl.areaMarla)
    IN r.exc = "" /\ r.isValid

\* C3: encoding a categorical value the encoder was not fitted on never
\* raises on a prediction path: in main, prepareFeatures raises nothing for
\* a payload that passed validation and the room-to-area check, and in the
\* ROI predictors every label-encoded column of the request served has a
\* code.
C3_UnseenCategoryNeverRaises ==
    /\ program = "main" /\ pc = "validated" /\ RatioAccepted =>
          prepareFeatures(predictor, validation.cleanedPayload).exc = ""
    /\ RoiServed =>
          \A col \in {"property_type_encoded", "location_encoded", "city_encoded",
                      "province_encoded"} :
             \A p \in TrainedWith(col) : FeatureOf(p, col, payload.items).exc = ""

\* C4: when validatePayload returns isValid = True the cleaned payload has
\* propertyType and city in the valid sets, 0 < areaMarla <= 100 and
\* bedrooms and bathrooms in 0..10; when it returns isValid = False the
\* cleaned payload is None.
C4_CleanedPayloadWithinLimits ==
    ValidateReturned /\ validation.raised = "" =>
        LET c == validation.cleanedPayload IN
        IF validation.isValid
        THEN /\ ~c.isNone
             /\ c.propertyType \in Range(VALID_PROPERTY_TYPES)
             /\ c.city \in Range(VALID_CITIES)
             /\ Finite(c.areaMarla)
             /\ c.areaMarla.n > 0
             /\ c.areaMarla.n <= MaxAreaMarla * c.areaMarla.d
             /\ c.bedrooms \in 0..MaxRooms
             /\ c.bathrooms \in 0..MaxRooms
        ELSE c.isNone

\* the rule of validatePayload about a required field is violated by the
\* dict p: the field is missing, the text is not in the valid set, or the
\* number is outside its limits
ViolatesRule(p, f) ==
    \/ p[f] = Absent
    \/ /\ f = "propertyType" /\ p[f].t = "str"
       /\ Strip(p[f].s) \notin Range(VALID_PROPERTY_TYPES)
    \/ /\ f = "city" /\ p[f].t = "str"
       /\ Strip(p[f].s) \notin Range(VALID_CITIES)
    \/ /\ f = "areaMarla" /\ Finite(p[f])
       /\ (p[f].n <= 0 \/ p[f].n > MaxAreaMarla * p[f].d)
    \/ /\ f \in {"bedrooms", "bathrooms"} /\ p[f].t = "int"
       /\ (p[f].n < 0 \/ p[f].n > MaxRooms)

\* the texts of validatePayload that name the rule about a field
RuleTexts(f) ==
    {f, "Invalid " \o f, f \o " must be greater than 0", f \o " cannot exceed 100 Marla",
     f \o " must be a valid number", f \o " cannot be negative", f \o " cannot exceed 10",
     f \o " must be a valid integer"}

\* C5: validatePayload aggregates the failures: the message it returns for
\* a dict names every rule the dict violates, a missing required field
\* included.
C5_EveryViolatedRuleNamed ==
    ValidateReturned /\ validation.raised = "" /\ payload.isDict =>
        \A f \in Range(requiredFields) :
            ViolatesRule(payload.items, f)
            => Range(validation.errorMessage) \cap RuleTexts(f) # {}

\* C6: validatePayload returns a tuple for every input and never raises,
\* also for a payload that is no dict and for a value of the wrong type.
C6_ValidateNeverRaises ==
    ValidateReturned => validation.raised = ""

\* the request of the server script has a location that is missing or
\* empty, or a purpose that is missing or not recognised
LocationOrPurposeLeftOut(request) ==
    \/ request.location \in {Absent, PyStr(<<>>)}
    \/ request.purpose.t # "str"
    \/ request.purpose.s \notin Range(VALID_PURPOSES)

\* C7: a request is not rejected for a location or a purpose that is
\* missing, empty or not recognised.  validatePayload gives the verdict it
\* gives without the two fields and resolves location to 'Other_Location'
\* and purpose to 'For Sale'; encode_features gives a vector whenever it
\* gives one for the same request with a location and a purpose filled in.
C7_LocationAndPurposeDefault ==
    /\ ValidateReturned /\ payload.isDict =>
          LET p == payload.items
              plain == [payload EXCEPT !.items.location = Absent,
                                       !.items.purpose = Absent]
          IN /\ validation.raised = validatePayload(plain).raised
             /\ validation.isValid = validatePayload(plain).isValid
             /\ validation.isValid =>
                   /\ ~Truthy(p.location)
                      => validation.cleanedPayload.location = Word("Other_Location")
                   /\ (p.purpose.t # "str" \/ p.purpose.s \notin Range(VALID_PURPOSES))
                      => validation.cleanedPayload.purpose = Word("For Sale")
    /\ /\ program = "server" /\ pc = "done"
       /\ outcome = "Failed to encode features"
       /\ LocationOrPurposeLeftOut(payload.items)
       => EncodeRaises([payload.items EXCEPT !.location = Word("DHA Phase 5"),
                                                !.purpose = Word("For Sale")])

\* (bedrooms + bathrooms) / areaMarla is a number of [0.15, 1.8]
RatioWithin(pl) ==
    /\ Finite(pl.areaMarla)
    /\ pl.areaMarla.n > 0
    /\ 20 * (pl.bedrooms + pl.bathrooms) * pl.areaMarla.d >= 3 * pl.areaMarla.n
    /\ 5 * (pl.bedrooms + pl.bathrooms) * pl.areaMarla.d <= 9 * pl.areaMarla.n

\* C8: in a run of main, features are composed and the model is asked only
\* for a payload that passed validation and whose rooms per marla lie in
\* [0.15, 1.8]; a payload that failed validation ends the run with the
\* validation error.
C8_NoInferenceForRejectedPayload ==
    program = "main" =>
       /\ nCompose > 0 \/ nInfer > 0 \/ pc \in {"composed", "predicted"} =>
             /\ validation.raised = ""
             /\ validation.isValid
             /\ RatioWithin(validation.cleanedPayload)
       /\ validation.raised = "" /\ ~validation.isValid =>
             /\ pc = "done"
             /\ outcome = "Validation Error"
             /\ nCompose = 0
             /\ nInfer = 0

IsComplete(result) == "rental_prediction" \in DOMAIN result

\* C9: a result of calculate_comprehensive_roi is a complete analysis with
\* no error field at any level, or it holds the error message only.
C9_CompleteOrErrorOnly ==
    RoiServed =>
        IF IsComplete(prediction)
        THEN /\ "error" \notin DOMAIN prediction
             /\ prediction.rental_prediction.error = ""
             /\ prediction.value_prediction.error = ""
        ELSE DOMAIN prediction = {"error"}

ArtifactMissing ==
    \/ program = "main" /\ \E path \in ArtifactPaths : ~files[path].exists
    \/ program = "roi" /\ MissingIn(files[RentalDir]) + MissingIn(files[ValueDir]) > 0

\* C10: a missing artifact is fatal at start: the construction of
\* PropertyPricePredictor raises and the run of main ends without a
\* prediction; initialize_models of the ROI service does not leave the
\* service initialized, and the service produces no analysis.
C10_MissingArtifactFatalAtStart ==
    ArtifactMissing /\ pc # "start" =>
       /\ program = "main" =>
             /\ ~predictor.constructed
             /\ pc = "done"
             /\ outcome = "FileNotFoundError"
             /\ nInfer = 0
       /\ program = "roi" =>
             /\ ~predictor.is_initialized
             /\ (pc = "served" => ~IsComplete(prediction))
\* C11: in every state of a run of load_model calls, a predictor whose
\* is_trained is True holds a model, encoders, a scaler and a feature list
\* that were saved by one and the same training run, and its feature list
\* is as long as the input width of its model
C11_LoadedSetConsistent ==
    (program = "load" /\ predictor.is_trained) =>
        /\ \E run \in DOMAIN SavedSets :
              /\ predictor.models = SavedSets[run].model
              /\ predictor.encoders = SavedSets[run].encoders
              /\ predictor.scaler = SavedSets[run].scaler
              /\ predictor.feature_columns = SavedSets[run].features
        /\ Len(predictor.feature_columns) = predictor.models.n_features_in_

\* C12: once start-up is over, no step of the running ROI service changes
\* the model, the encoders, the scaler or the feature list of either
\* predictor
C12_NoMutationAfterLoad ==
    [][(program = "roi" /\ pc # "start") =>
          /\ predictor'.rental_predictor = predictor.rental_predictor
          /\ predictor'.value_predictor = predictor.value_predictor]_vars

\* C13: every predicted price that is reported is at least the floor of
\* 1,000,000 PKR: the prediction of the server script, the predictedPrice
\* of predictPrice, and the value that the trained PropertyValuePredictor
\* returns to the ROI service
C13_PriceAtLeastFloor ==
    /\ (program = "server" /\ outcome = "prediction") =>
          AtLeast(prediction.predictedPrice, PriceFloor)
    /\ (program = "main" /\ nInfer > 0) =>
          prediction.predictedPrice >= PriceFloor
    /\ (RoiServed /\ IsComplete(prediction)
        /\ prediction.value_prediction.model_used = "trained") =>
          AtLeast(prediction.value_prediction.predicted_value, PriceFloor)

\* C14: for a payload that passed validation and the room-ratio check,
\* whatever log price the model gives, predictPrice returns a predictedPrice
\* above 0 that lies strictly between priceRange.min and priceRange.max,
\* the three being int() of the price, of 0.85 times and of 1.15 times it
C14_PositivePriceInsideBand ==
    (program = "main" /\ nInfer > 0) =>
        /\ prediction.predictedPrice > 0
        /\ prediction.priceRange.min < prediction.predictedPrice
        /\ prediction.predictedPrice < prediction.priceRange.max
        /\ prediction.predictedPrice = IntOf(expm1(predictor.model))
        /\ prediction.priceRange.min = IntOf(Times(expm1(predictor.model), 85, 100))
        /\ prediction.priceRange.max = IntOf(Times(expm1(predictor.model), 115, 100))

\* C15: a response of generateApiResponse is built with one feature
\* composition and one model inference
C15_OneInferencePerResponse ==
    (program = "main" /\ pc = "done" /\ outcome = "response") =>
        nCompose = 1 /\ nInfer = 1

Graded == program = "grade" /\ pc = "returned"

\* C16: get_investment_grade returns the grade of the first tier, from A+
\* downwards, whose three thresholds are all met, and D when none is; it
\* agrees with calculate_grade of the test, and an analysis that meets the
\* B+ thresholds is graded A+, A or B+
C16_GradeOfFirstTierMet ==
    Graded =>
        /\ prediction.grade = FirstTierMet(payload.items)
        /\ prediction.grade = calculate_grade(payload.items.current_metrics.annual_roi,
                                              payload.items.current_metrics.cap_rate,
                                              payload.items.investment_metrics.irr)
        /\ MeetsTier(payload.items, 3) => prediction.grade \in {"A+", "A", "B+"}

\* an analysis that meets the thresholds of B+ and of B but not those of A
\* has been graded B+
C16_Witness ==
    /\ Graded
    /\ MeetsTier(payload.items, 3) /\ MeetsTier(payload.items, 4)
    /\ ~MeetsTier(payload.items, 2)
    /\ prediction.grade = "B+"

GradeRank(grade) ==
    CASE grade = "D" -> 0 [] grade = "C" -> 1 [] grade = "B" -> 2
      [] grade = "B+" -> 3 [] grade = "A" -> 4 [] grade = "A+" -> 5

\* x >= y for two floats: False when either is NaN
NotBelow(x, y) ==
    /\ x.t # "nan" /\ y.t # "nan"
    /\ ~LessThan(x, y)

Dominates(better, worse) ==
    /\ NotBelow(better.current_metrics.annual_roi, worse.current_metrics.annual_roi)
    /\ NotBelow(better.current_metrics.cap_rate, worse.current_metrics.cap_rate)
    /\ NotBelow(better.investment_metrics.irr, worse.investment_metrics.irr)

\* C17: an analysis whose annual_roi, cap_rate and irr are each at least
\* those of the analysis just graded gets a grade that is not lower in the
\* order D < C < B < B+ < A < A+
C17_GradeMonotonic ==
    Graded =>
        \A better \in RoiAnalyses :
            Dominates(better, payload.items) =>
                GradeRank(get_investment_grade(better).grade) >= GradeRank(prediction.grade)

\* a graded analysis below A+ that another analysis dominates with a
\* strictly better grade, and a third one dominates with the same grade
C17_Witness ==
    /\ Graded
    /\ prediction.grade = "B"
    /\ \E better \in RoiAnalyses :
          /\ Dominates(better, payload.items)
          /\ better # payload.items
          /\ get_investment_grade(better).grade = "A"
    /\ \E better \in RoiAnalyses :
          /\ Dominates(better, payload.items)
          /\ better # payload.items
          /\ get_investment_grade(better).grade = "B"

\* C18: calculate_comprehensive_roi returns a full result for every
\* monthly_rent, property_value, monthly_maintenance and years that are not
\* negative, zero rent and zero value included, and in that result
\* payback_period is +inf whenever the monthly cash flow is not above 0
C18_DegenerateInputAbsorbed ==
    (program = "calc" /\ pc = "returned") =>
        /\ prediction.exc = ""
        /\ "roi_analysis" \in DOMAIN prediction
        /\ monthly_cash_flow(payload.items.monthly_rent, payload.items.property_value,
                             payload.items.monthly_maintenance).n <= 0
             => prediction.roi_analysis.current_metrics.payback_period = PyInf

\* C19: calculate_irr makes at most 100 passes of its loop and ends by
\* returning its last rate as a percentage: it never raises, and it stops
\* looping once |NPV| < 1e-6 or the derivative underflows
C19_IrrReturnsWithinCap ==
    program = "irr" =>
        /\ prediction.iterations <= MaxNewtonIterations
        /\ pc # "raised"
        /\ pc = "returned" => prediction.irr = Times(prediction.rate, 100, 1)

\* x == y between two Python numbers
NumEq(x, y) == Finite(x) /\ Finite(y) /\ x.n * y.d = y.n * x.d

\* the position of the ratio in the vector of encode_features
RatioPosition == IndexOf(EncodedFeatureNames, "bath_bedroom_ratio")

\* a composed vector of the prediction server whose record has a number of
\* bathrooms and a number of bedrooms
RatioComposed ==
    /\ ServerComposed
    /\ Finite(payload.items.bathrooms)
    /\ Finite(payload.items.bedrooms)

\* C20: for every record the bath to bedroom ratio of the composed vector is
\* bathrooms / max(bedrooms, 1), so that a record of 0 bedrooms has its number
\* of bathrooms as the ratio, and encode_features gives the value that the
\* training-time feature engineering (train_decision_tree, kaggle_train_backup)
\* gives for the same record.
C20_RatioOverAtLeastOneBedroom ==
    RatioComposed =>
        LET baths == payload.items.bathrooms
            bedrooms == payload.items.bedrooms
            ratio == featureDf[RatioPosition]
        IN /\ NumEq(ratio, Quot(baths, IF bedrooms.n > bedrooms.d THEN bedrooms
                                       ELSE PyInt(1)))
           /\ NumEq(ratio, decision_tree_bath_bedroom_ratio(baths, bedrooms))
           /\ NumEq(ratio, kaggle_bath_bedroom_ratio(baths, bedrooms))

\* 0.15 <= (bedrooms + baths) / area <= 1.8 with area > 0
RoomRatioBound(bedrooms, baths, area) ==
    /\ area > 0
    /\ 20 * (bedrooms + baths) >= 3 * area
    /\ 5 * (bedrooms + baths) <= 9 * area
\* the stages of DataPreprocessor.preprocess from validateRoomAreaRatios on
PrepFiltered ==
    /\ program = "prep"
    /\ pc \notin {"start", "loadData", "dropUnnecessaryColumns", "filterCities",
                  "filterPropertyTypes"}

\* C21: every record that is in the corpus once the validity filtering has
\* ended (validateRoomAreaRatios of DataPreprocessor.preprocess,
\* load_and_preprocess_data of kaggle_train.py) has an area above 0 and
\* between 0.15 and 1.8 rooms per unit of area, and this stays so through
\* every later stage of the pipeline (outlier removal, grouping of rare
\* locations, balancing, feature engineering, encoding, selection of the
\* model data).
C21_RatioBoundAfterFiltering ==
    /\ PrepFiltered =>
          \A r \in DOMAIN featureDf :
              RoomRatioBound(r.bedrooms, r.baths, r.Area_in_Marla)
    /\ program = "kaggle" /\ pc \in {"load_and_preprocess_data", "feature_engineering"} =>
          \A r \in DOMAIN featureDf : RoomRatioBound(r.bedrooms, r.baths, r.area_size)
    /\ program = "kaggle" /\ pc = "prepare_model_data" =>
          \A r \in DOMAIN featureDf :
              RoomRatioBound(r.X.bedrooms, r.X.baths, r.X.area_size)
\* a finished run of preprocess whose input file had a row outside the
\* bound and whose output has a row on the lower bound
C21_Witness ==
    /\ program = "prep"
    /\ pc = "saveCleanedData"
    /\ \E r \in DOMAIN payload.items :
          ~RoomRatioBound(r.bedrooms, r.baths, r.Area_in_Marla)
    /\ \E r \in DOMAIN featureDf : 20 * (r.bedrooms + r.baths) = 3 * r.Area_in_Marla

\* C23: when encodeCategoricalVariables fits the location encoder, every
\* location other than 'Other_Location' has at least 20 rows in the corpus
\* that is encoded.
C23_NoLocationFittedOnFewRows ==
    program = "prep" /\ pc \in {"encodeCategoricalVariables", "saveCleanedData"} =>
        \A location \in DOMAIN predictor.targetEncoder :
            location # "Other_Location" =>
                predictor.targetEncoder[location].count >= RareLocationCount

\* the rows of the input file that pass the city, property type, room to
\* area ratio and hard cap filters
PassedFilters ==
    Where(payload.items, LAMBDA r :
        /\ r.city \in {"Karachi", "Lahore", "Islamabad"}
        /\ r.property_type \in {"House", "Flat", "Penthouse"}
        /\ RoomRatioBound(r.bedrooms, r.baths, r.Area_in_Marla)
        /\ r.price > 0 /\ r.bedrooms <= 10 /\ r.baths <= 10
        /\ r.Area_in_Marla >= 1 /\ r.Area_in_Marla <= 100)
PrepCutoffsTaken ==
    /\ program = "prep"
    /\ pc \notin {"start", "loadData", "dropUnnecessaryColumns", "filterCities",
                  "filterPropertyTypes", "validateRoomAreaRatios"}

\* C24: the 0.5th and 99.5th percentile cut-offs of handleOutliers are the
\* percentiles of the prices of exactly the rows that passed the city,
\* property type, room to area ratio and hard cap filters; a row that one of
\* these filters removed does not count.
C24_CutoffsOverFilteredRows ==
    PrepCutoffsTaken =>
        /\ prediction.priceQ005 = Quantile(PassedFilters, 5, 1000)
        /\ prediction.priceQ995 = Quantile(PassedFilters, 995, 1000)
\* the cut-offs are taken and differ from those of the whole input file,
\* which has a row that only the hard caps remove
C24_Witness ==
    /\ PrepCutoffsTaken
    /\ prediction.priceQ005 # Quantile(payload.items, 5, 1000)
    /\ prediction.priceQ995 # Quantile(payload.items, 995, 1000)
    /\ \E r \in DOMAIN payload.items :
          /\ r.city = "Karachi" /\ r.property_type = "House"
          /\ RoomRatioBound(r.bedrooms, r.baths, r.Area_in_Marla)
          /\ r.bedrooms > 10

\* the columns derived from the price
PriceDerived == {"price_per_unit", "price_per_marla"}

\* C22: in every training pipeline whose feature list has a column derived
\* from the price (price_per_unit, price_per_marla), every training row has
\* the placeholder 0 of inference time in that column, never a value
\* computed from the price of the row.
C22_PriceDerivedFeatureIsZero ==
    program = "features" /\ pc = "engineered" =>
        \A row \in DOMAIN featureDf :
            \A col \in PriceDerived \cap DOMAIN row.X :
                row.X[col].t \in {"int", "float"} /\ row.X[col].n = 0

\* the rows of one category, its mean and the mean of all rows, taken from
\* the frame the encoder was fitted on
CategoryRows(c) == Where(payload.items, LAMBDA r : r.feature = c)
StrictlyBetween(x, a, b) ==
    \/ LessThan(a, x) /\ LessThan(x, b)
    \/ LessThan(b, x) /\ LessThan(x, a)
FitDone == program = "encoder" /\ pc = "fitted"

\* C25: after ManualTargetEncoder.fit every category of the frame has the
\* code (count * mean + smoothing * globalMean) / (count + smoothing), count
\* and mean taken over the category's targets and globalMean over all rows;
\* with smoothing > 0 a category whose mean differs from the global mean has
\* a code strictly between its mean and the global mean.
C25_SmoothedCode ==
    FitDone =>
        /\ DOMAIN predictor.encoding_map = {r.feature : r \in DOMAIN payload.items}
        /\ NumEq(predictor.global_mean, MeanOfTargets(payload.items))
        /\ \A c \in DOMAIN predictor.encoding_map :
              /\ NumEq(Times(predictor.encoding_map[c],
                             RowCount(CategoryRows(c)) + predictor.smoothing, 1),
                       RatAdd(SumOfTargets(CategoryRows(c)),
                              Times(MeanOfTargets(payload.items),
                                    predictor.smoothing, 1)))
              /\ (predictor.smoothing > 0
                    /\ ~NumEq(MeanOfTargets(CategoryRows(c)),
                              MeanOfTargets(payload.items)))
                 => StrictlyBetween(predictor.encoding_map[c],
                                    MeanOfTargets(CategoryRows(c)),
                                    MeanOfTargets(payload.items))
\* the scenario {A: [10, 20], B: [100]} fitted with smoothing 1: the code
\* of B is 215/3, not the plain mean 100 of B
C25_Witness ==
    /\ FitDone
    /\ predictor.smoothing = 1
    /\ payload.items = SetToBag({EncoderRow("A", 10), EncoderRow("A", 20),
                                 EncoderRow("B", 100)})
    /\ NumEq(predictor.encoding_map["B"], PyFloat(215, 3))
    /\ ~NumEq(predictor.encoding_map["B"], PyInt(100))

\* C26: in the trainers the final model exists only once all folds have
\* been scored, it is None all through the folds, and the saved model is the
\* one trainFinalModel made from the training rows of the split, not the
\* model of a fold; in kaggle_train.py the models of the registry stay
\* unfitted while their clones are fitted on the folds.
C26_KFoldBeforeFinalModel ==
    /\ program = "trainer" =>
          /\ predictor.model # PyNone =>
                /\ Len(predictor.kfoldResults) = nSplits
                /\ predictor.model.num_boost_round = 1000
                /\ predictor.model.fitted_on = predictor.XTrain.rows
                /\ predictor.model # prediction.model
          /\ pc = "in performKFoldCV" => predictor.model = PyNone
          /\ "model_pkl" \in DOMAIN files => files.model_pkl = predictor.model
    /\ program = "kaggle" /\ pc \in {"train_and_evaluate", "raised"}
                          /\ prediction # PyNone =>
          \A i \in DOMAIN prediction.models : prediction.models[i].fitted_on = PyNone
\* a run that saved its model, the last fold model having been fitted on
\* the very rows the final model was fitted on
C26_Witness ==
    /\ program = "trainer" /\ pc = "saveModel"
    /\ "model_pkl" \in DOMAIN files
    /\ prediction.model.fitted_on = predictor.XTrain.rows
    /\ prediction.model.num_boost_round = 500

\* C27: no row of the test split takes part in making the final model:
\* none is among the rows it was fitted on, and none is in a set that
\* stopped its boosting and so fixed the number of rounds it predicts with.
C27_TestSplitHeldOut ==
    program = "trainer" /\ predictor.model # PyNone =>
        \A r \in predictor.XTest.rows :
            /\ r \notin predictor.model.fitted_on
            /\ \A d \in predictor.model.best_iteration.early_stopping_on : r \notin d

\* the scores that are computed from pairs of prices: expm1 of the true and
\* of the predicted log-price
InPriceSpace(scores) ==
    \A metric \in {"rmse", "mae", "r2", "mape"} :
        \A pair \in scores[metric] :
            /\ "expm1" \in DOMAIN pair[1]
            /\ "expm1" \in DOMAIN pair[2]
ScoresOfFolds ==
    IF program = "trainer" /\ prediction # PyNone THEN Range(prediction.foldResults)
    ELSE IF program = "kaggle" /\ prediction # PyNone THEN Range(prediction.fold_scores)
    ELSE {}
ScoresOfFinalModel ==
    IF program = "trainer"
    THEN {predictor.trainMetrics, predictor.testMetrics} \ {PyNone}
    ELSE {}

\* C28: the rmse, mae, r2 and mape of every fold and of the final train and
\* test evaluation are computed from prices, expm1 applied to the true and
\* to the predicted log-price.
C28_MetricsInPriceSpace ==
    \A scores \in ScoresOfFolds \cup ScoresOfFinalModel : InPriceSpace(scores)

\* C29: a run of kaggle_train.py on an input file never ends in an
\* exception: it does not stop before the folds of every model of the
\* registry are done.
C29_TrainAndEvaluateCompletes ==
    program = "kaggle" /\ files.csv.exists => pc # "raised"

\* the request served with another purchase_price, and its analysis by the
\* service as it is
WithPurchasePrice(price) == [payload.items EXCEPT !.purchase_price = price]
AnalysisWith(price) == calculate_comprehensive_roi(predictor, WithPurchasePrice(price))
\* a full analysis whose ROI figures are those of the calculator for the
\* given price
AnalysedAgainst(analysis, price) ==
    /\ IsComplete(analysis)
    /\ analysis.roi_analysis =
          ROICalculate(analysis.rental_prediction.predicted_rent, price,
                       DictGet(payload.items, "monthly_maintenance", PyInt(0)),
                       DictGet(payload.items, "analysis_years", PyInt(5))).roi_analysis
\* the answer is a full analysis when the request names a purchase price
AnalysableWithPrice == \E price \in PurchasePrices : IsComplete(AnalysisWith(price))

\* C30: a request that the service analyses when it names a purchase price
\* is analysed also when it names none, the key being None as in the dict of
\* the /analyze route or being absent: the answer is then a full analysis
\* against the predicted property value; when the price is given, the
\* analysis is against that price.
C30_NoPurchasePriceUsesPredictedValue ==
    RoiServed =>
       /\ payload.items.purchase_price = PyNone /\ AnalysableWithPrice =>
             /\ AnalysedAgainst(prediction, prediction.value_prediction.predicted_value)
             /\ AnalysedAgainst(AnalysisWith(Absent),
                                AnalysisWith(Absent).value_prediction.predicted_value)
       /\ IsNumber(payload.items.purchase_price) /\ IsComplete(prediction) =>
             AnalysedAgainst(prediction, payload.items.purchase_price)

====
